---- MODULE Spec2Model ----
(***************************************************************************)
(* Job pipeline engine of codex-orchestrator: the State Store (sqlite),    *)
(* the plan / run-subtask / merge stage tools and the deterministic        *)
(* engine that drives one job through them.                                *)
(*                                                                         *)
(* One behaviour is one engine run for one job id.  Every await of the     *)
(* TypeScript code is a point where the continuations of the other         *)
(* subtasks of the batch may run, so every action below is the code        *)
(* between two awaits.  The outcome of each external process (Worker CLI,  *)
(* git) is an input chosen with \E.  In an engine run the State Store and  *)
(* the job directory are taken to be writable.                             *)
(*                                                                         *)
(* The other components have a specification each, over a variable of      *)
(* their own: the State Store API with storage errors (StoreSpec), the     *)
(* task dispatcher (DispatchSpec), the dashboard server (DashboardSpec),   *)
(* the Process Runner's capture (CaptureSpec), the stages' reading of the *)
(* Worker CLI's output (RecoverySpec), the Telegram task source            *)
(* (TelegramSpec) and the stages' project root (PathsSpec).  ContextSpec   *)
(* follows the jobs row through the writes the stages of one run make,     *)
(* each with the context its stage passes.                                 *)
(***************************************************************************)
EXTENDS Integers, Sequences, FiniteSets, TLC

\* Largest number of subtasks in a plan.
MaxSubtasks == 3

\* Largest number of calls made to the State Store API.
MaxCalls == 3

\* Largest number of subtasks in a plan of a run whose options, stored job
\* and Worker CLI answers are varied.
MaxJobSubtasks == 2

(***************************************************************************)
(* Data model                                                              *)
(***************************************************************************)

JobStatus ==
    {"analyzing", "refactoring", "planning", "running", "merging",
     "done", "failed", "needs_manual_review"}

SubtaskStatus == {"pending", "running", "completed", "failed"}

\* markJobStatus's priority table.
priority ==
    [failed |-> 7, needs_manual_review |-> 6, done |-> 5, merging |-> 4,
     running |-> 3, planning |-> 2, refactoring |-> 1, analyzing |-> 0]

\* ensureTerminalJobStatus's isTerminal.
isTerminal(current) ==
    current = "done" \/ current = "failed" \/ current = "needs_manual_review"

\* Parallel-group labels a planner may return ("" is the empty label).
ParallelGroups == {"", "g1", "g2"}

\* Strings that are sanitised are sequences of characters.  The id of the
\* k-th subtask of a plan whose ids need no sanitising.
SubtaskId(k) == <<"s", ToString(k)>>

\* Ids a planner may return that sanitise to the same fragment ("a", "A"),
\* to a fragment that looks like a suffixed name ("a-2"), or to nothing ("!").
PlannerIds == {<<"a">>, <<"A">>, <<"a", "-", "2">>, <<"!">>}

SubtaskIds == {SubtaskId(k) : k \in 1..MaxSubtasks} \cup PlannerIds

\* The subtaskId of an artifact that belongs to no subtask.
NoSubtask == <<>>

\* A branch column, or a result.branch, that is not set.
NoBranch == <<>>

\* context.jobId
JobId == <<"j">>

\* The user task handed to the engine; every entry point rejects an empty one.
UserTasks == {"task"}

\* CodexPlanTaskResult: can_parallelize and the subtasks with their group.
PlanOf(cp, ids, groups) ==
    [can_parallelize |-> cp,
     subtasks |-> [k \in 1..Len(groups) |->
                      [id |-> ids[k], parallel_group |-> groups[k]]]]

PlanOfGroups(cp, groups) ==
    PlanOf(cp, [k \in 1..Len(groups) |-> SubtaskId(k)], groups)

SeqsUpTo(S, n) == UNION {[1..m -> S] : m \in 0..n}

Plans ==
    {PlanOfGroups(cp, g) : cp \in BOOLEAN, g \in SeqsUpTo(ParallelGroups, MaxSubtasks)}

NoPlan == PlanOfGroups(FALSE, <<>>)

(***************************************************************************)
(* State Store: one jobs row (status "none" = no row), the subtasks rows   *)
(* of the job ("absent" = no row) and the append-only artifacts table.     *)
(***************************************************************************)

EmptyDb ==
    [status |-> "none",
     subtasks |-> [id \in SubtaskIds |-> "absent"],
     branches |-> [id \in SubtaskIds |-> NoBranch],
     artifacts |-> <<>>]

Artifact(type, subtaskId) == [type |-> type, subtaskId |-> subtaskId]

insertArtifact(d, type, subtaskId) ==
    [d EXCEPT !.artifacts = Append(@, Artifact(type, subtaskId))]

\* INSERT ... ON CONFLICT(job_id) DO UPDATE SET ..., status=excluded.status
upsertJob(d, status) == [d EXCEPT !.status = status]

markJobStatus(d, status) ==
    IF d.status = "none" THEN upsertJob(d, status)
    ELSE IF priority[status] < priority[d.status] THEN d
    ELSE [d EXCEPT !.status = status]

\* An ensureTerminalJobStatus without the check for a terminal status.
ensureTerminalJobStatus_always(d, fallback) ==
    IF d.status = "none" THEN d
    ELSE markJobStatus(d, fallback)

ensureTerminalJobStatus(d, fallback) ==
    IF d.status = "none" THEN d
    ELSE IF isTerminal(d.status) THEN d
    ELSE markJobStatus(d, fallback)

recordPlannerOutput(d, p) ==
    LET d1 == upsertJob(d, "planning")
        ids == {p.subtasks[k].id : k \in 1..Len(p.subtasks)}
        d2 == [d1 EXCEPT !.subtasks =
                  [id \in SubtaskIds |-> IF id \in ids THEN "pending" ELSE @[id]]]
    IN  insertArtifact(d2, "plan", NoSubtask)

recordSubtaskStart(d, id, branchName) ==
    LET d1 == upsertJob(d, "running")
    IN  [d1 EXCEPT !.subtasks[id] = "running", !.branches[id] = branchName]

\* resultBranch is result.branch (NoBranch when the result has none).
recordSubtaskResult(d, id, resultStatus, resultBranch, branchName) ==
    LET isOk == resultStatus = "ok"
        d1 == upsertJob(d, IF isOk THEN "running" ELSE "failed")
        d2 == [d1 EXCEPT !.subtasks[id] = IF isOk THEN "completed" ELSE "failed",
                         !.branches[id] = IF resultBranch # NoBranch
                                          THEN resultBranch ELSE branchName]
    IN  insertArtifact(d2, "subtask_result", id)

recordMergeStart(d) ==
    insertArtifact(upsertJob(d, "merging"), "merge_input", NoSubtask)

\* A merge result recorded as needing manual review whatever the merge returned.
recordMergeResult_review(d, mergeStatus) ==
    insertArtifact(upsertJob(d, "needs_manual_review"), "merge_result", NoSubtask)

recordMergeResult(d, mergeStatus) ==
    insertArtifact(
        upsertJob(d, IF mergeStatus = "needs_manual_review"
                     THEN "needs_manual_review" ELSE "done"),
        "merge_result", NoSubtask)

recordMergeFailure(d) ==
    insertArtifact(upsertJob(d, "failed"), "merge_error", NoSubtask)

recordAnalysisOutput(d) ==
    insertArtifact(upsertJob(d, "analyzing"), "analysis", NoSubtask)

recordRefactorOutput(d) ==
    insertArtifact(upsertJob(d, "refactoring"), "refactor", NoSubtask)

(***************************************************************************)
(* Pipeline engine: batching                                               *)
(***************************************************************************)

\* groupKey of buildBatches; idx is the 1-based position (the code's idx + 1).
groupKey(p, idx) ==
    IF p.can_parallelize
    THEN IF p.subtasks[idx].parallel_group # ""
         THEN p.subtasks[idx].parallel_group
         ELSE "solo-" \o ToString(idx)
    ELSE "seq-" \o ToString(idx)

\* groupIndex.get(key): the batch of a key, 0 when the key is new.
groupIndexOf(keys, key) ==
    IF \E n \in 1..Len(keys) : keys[n] = key
    THEN CHOOSE n \in 1..Len(keys) : keys[n] = key
    ELSE 0

\* A forEach that pushes the subtask both when it opens the batch and after.
RECURSIVE buildBatchesFrom_twice(_, _, _, _)
buildBatchesFrom_twice(p, idx, keys, acc) ==
    IF idx > Len(p.subtasks) THEN acc
    ELSE LET key == groupKey(p, idx)
             n == groupIndexOf(keys, key)
         IN  IF n = 0
             THEN buildBatchesFrom_twice(p, idx + 1, Append(keys, key), Append(acc, <<idx, idx>>))
             ELSE buildBatchesFrom_twice(p, idx + 1, keys, [acc EXCEPT ![n] = Append(@, idx)])

RECURSIVE buildBatchesFrom(_, _, _, _)
buildBatchesFrom(p, idx, keys, acc) ==
    IF idx > Len(p.subtasks) THEN acc
    ELSE LET key == groupKey(p, idx)
             n == groupIndexOf(keys, key)
         IN  IF n = 0
             THEN buildBatchesFrom(p, idx + 1, Append(keys, key), Append(acc, <<idx>>))
             ELSE buildBatchesFrom(p, idx + 1, keys, [acc EXCEPT ![n] = Append(@, idx)])

\* The batches of a plan, each a sequence of positions in plan.subtasks.
buildBatches(p) == buildBatchesFrom(p, 1, <<>>, <<>>)

(***************************************************************************)
(* Pipeline engine and run-subtask stage: worktree and branch names        *)
(***************************************************************************)

\* The characters the names are made of.
LowerChars == {"a", "b", "j", "k", "s", "t", "u"}

UpperChars == {"A"}

DigitChars == {ToString(n) : n \in 0..9}

\* String.prototype.toLowerCase, character by character.
toLowerCase(s) == [n \in 1..Len(s) |-> IF s[n] = "A" THEN "a" ELSE s[n]]

\* replace(/[^keep]+/g, "-"): every run of characters outside keep becomes "-".
RECURSIVE replaceRuns(_, _, _)
replaceRuns(s, keep, inRun) ==
    IF s = <<>> THEN <<>>
    ELSE IF Head(s) \in keep THEN <<Head(s)>> \o replaceRuns(Tail(s), keep, FALSE)
    ELSE IF inRun THEN replaceRuns(Tail(s), keep, TRUE)
    ELSE <<"-">> \o replaceRuns(Tail(s), keep, TRUE)

\* replace(/^-+|-+$/g, "")
RECURSIVE trimDashes(_)
trimDashes(s) ==
    IF s = <<>> THEN s
    ELSE IF Head(s) = "-" THEN trimDashes(Tail(s))
    ELSE IF s[Len(s)] = "-" THEN trimDashes(SubSeq(s, 1, Len(s) - 1))
    ELSE s

sanitizeFragment(value, fallback) ==
    LET normalized ==
            trimDashes(replaceRuns(toLowerCase(value),
                                   LowerChars \cup DigitChars \cup {"-"}, FALSE))
    IN  IF normalized # <<>> THEN normalized ELSE fallback

sanitizeBranchName(name, fallback) ==
    LET cleaned ==
            trimDashes(replaceRuns(name,
                                   LowerChars \cup UpperChars \cup DigitChars
                                       \cup {".", "_", "/", "-"}, FALSE))
    IN  IF cleaned # <<>> THEN cleaned ELSE fallback

TaskPrefix == <<"t", "a", "s", "k", "-">>

\* The while loop of makeWorktreeName: the first suffix whose name is free.
RECURSIVE freeSuffix(_, _, _)
freeSuffix(base, suffix, taken) ==
    IF (base \o <<"-", ToString(suffix)>>) \in taken
    THEN freeSuffix(base, suffix + 1, taken)
    ELSE suffix

\* A makeWorktreeName that returns the base name whether it is taken or not.
makeWorktreeName_base(id, idx, taken) ==
    TaskPrefix \o sanitizeFragment(id, <<"s", "u", "b">> \o TaskPrefix \o <<ToString(idx + 1)>>)

\* makeWorktreeName(subtask, idx, taken): the name it returns (idx counts from 0).
makeWorktreeName(id, idx, taken) ==
    LET base == TaskPrefix
                    \o sanitizeFragment(id, <<"s", "u", "b">> \o TaskPrefix \o <<ToString(idx + 1)>>)
    IN  IF base \notin taken THEN base
        ELSE base \o <<"-", ToString(freeSuffix(base, 2, taken))>>

\* The closures of a batch run up to their first await in batch.map order:
\* each takes the next subtaskSeq and its worktree name.
RECURSIVE nameBatch(_, _, _, _, _)
nameBatch(p, members, seq, taken, names) ==
    IF members = <<>> THEN [seq |-> seq, taken |-> taken, names |-> names]
    ELSE LET k == Head(members)
             name == makeWorktreeName(p.subtasks[k].id, seq, taken)
         IN  nameBatch(p, Tail(members), seq + 1, taken \cup {name},
                       [names EXCEPT ![k] = name])

\* branchName of codexRunSubtask for a worktree that does not exist yet; the
\* fallback task-<Date.now()> is a name of digits.
branchNameOf(worktree_name) ==
    sanitizeBranchName(TaskPrefix \o worktree_name \o <<"-">> \o JobId,
                       TaskPrefix \o <<"0">>)

(***************************************************************************)
(* State                                                                   *)
(***************************************************************************)

VARIABLES
    db,              \* the State Store rows of the job
    seen,            \* the status values the jobs row has held so far
    pc,              \* where the engine run is
    userTask,        \* options.userTask
    plan,            \* the plan returned by codexPlanTask
    batches,         \* buildBatches(plan)
    batchIdx,        \* the batch the for loop is at
    st,              \* st[k]: where the async closure of subtask k is
    res,             \* res[k]: how the run-subtask stage of subtask k ended
    subtaskResults,  \* the engine's subtaskResults array (positions, push order)
    mergeIdx,        \* 0 before codexMergeResults is called, then the next branch
    mergeLog,        \* the outcome of every branch merge attempted so far
    error,           \* the stage whose error the run raised ("none" if none)
    options,         \* the options of the run: enablePrefactor, pushResult
    analysis,        \* should_refactor as the Analyze stage answers for the repository
    gitPointer,      \* the content of the .git pointer file of the result worktree
    resultGit,       \* the git commands issued with cwd the result worktree
    unmergedFiles,   \* whether the index of the result worktree has unmerged files
    mergeSummaries,  \* codexMergeResults's mergeSummaries (conflicts non-empty?)
    mergeResult,     \* the value codexMergeResults returned
    priorJob,        \* the State Store rows of the job when the run began
    takenNames,      \* the engine's takenNames set
    subtaskSeq,      \* the engine's subtaskSeq counter
    worktreeName,    \* worktreeName[k]: the worktree name of subtask k
    branch,          \* branch[k]: result.branch as codexRunSubtask returned it
    store,           \* the State Store as the callers of its API see it
    dispatcher,      \* a task dispatcher: its loop, its sources, the calls it made
    dashboard,       \* the dashboard server: its ticker and its subscribers
    capture,         \* the Process Runner: what a child wrote, what was captured
    stage,           \* a stage reading the output of its Worker CLI
    telegram,        \* a Telegram task source and the updates the server holds
    paths            \* a stage resolving the project root it is given

vars ==
    <<db, seen, pc, userTask, plan, batches, batchIdx, st, res,
      subtaskResults, mergeIdx, mergeLog, error, options, analysis,
      gitPointer, resultGit, unmergedFiles, mergeSummaries, mergeResult,
      priorJob, takenNames, subtaskSeq, worktreeName, branch, store, dispatcher,
      dashboard, capture, stage, telegram, paths>>

\* The state of one engine run, and the state of the other components.
engineVars ==
    <<db, seen, pc, userTask, plan, batches, batchIdx, st, res,
      subtaskResults, mergeIdx, mergeLog, error, options, analysis,
      gitPointer, resultGit, unmergedFiles, mergeSummaries, mergeResult,
      priorJob, takenNames, subtaskSeq, worktreeName, branch>>

otherVars == <<store, dispatcher, dashboard, capture, stage, telegram, paths>>

\* What a step of the State Store API leaves alone, and what a step of the
\* task dispatcher does.
storeFrame == <<engineVars, dispatcher, dashboard, capture, stage, telegram, paths>>

dispatcherFrame == <<engineVars, store, dashboard, capture, stage, telegram, paths>>

dashboardFrame == <<engineVars, store, dispatcher, capture, stage, telegram, paths>>

captureFrame == <<engineVars, store, dispatcher, dashboard, stage, telegram, paths>>

stageFrame == <<engineVars, store, dispatcher, dashboard, capture, telegram, paths>>

telegramFrame == <<engineVars, store, dispatcher, dashboard, capture, stage, paths>>

pathsFrame == <<engineVars, store, dispatcher, dashboard, capture, stage, telegram>>

\* What the engine is given, what the merge stage works on, and the names
\* the engine and the run-subtask stage hand out.
inputVars == <<options, analysis, priorJob>>

nameVars == <<takenNames, subtaskSeq, worktreeName>>

mergeVars == <<gitPointer, resultGit, unmergedFiles, mergeSummaries, mergeResult>>

Subtasks == 1..MaxSubtasks

\* The batch (1-based) a subtask position belongs to; 0 when it is in none.
batchOf(k) ==
    IF \E n \in 1..Len(batches) : \E m \in 1..Len(batches[n]) : batches[n][m] = k
    THEN CHOOSE n \in 1..Len(batches) : \E m \in 1..Len(batches[n]) : batches[n][m] = k
    ELSE 0

inBatch(n) == {batches[n][m] : m \in 1..Len(batches[n])}

\* Every write to the jobs row is observed.
observe(d) == seen' = IF d.status = "none" THEN seen ELSE seen \cup {d.status}

\* The options a run has when the command line sets none.
DefaultOptions == [enablePrefactor |-> FALSE, pushResult |-> FALSE]

\* The .git file of a worktree as git writes it: "gitdir: <path>" and a newline.
GitPointer == <<"g", "\n">>

\* What the .git file may hold after a Worker CLI run: the same bytes, the
\* same pointer without its newline, or another pointer.
PointerContents == {<<"g", "\n">>, <<"g">>, <<"x", "\n">>}

Whitespace == {" ", "\n"}

RECURSIVE trimStart(_)
trimStart(s) == IF s # <<>> /\ Head(s) \in Whitespace THEN trimStart(Tail(s)) ELSE s

RECURSIVE trimEnd(_)
trimEnd(s) ==
    IF s # <<>> /\ s[Len(s)] \in Whitespace THEN trimEnd(SubSeq(s, 1, Len(s) - 1)) ELSE s

\* String.prototype.trim
trim(s) == trimEnd(trimStart(s))

NoMergeResult == [status |-> "none", notes |-> <<>>]

(***************************************************************************)
(* State Store API over several jobs: every job id has its rows (db) and   *)
(* the started_at of its jobs row.                                         *)
(***************************************************************************)

JobIds == {"j1", "j2"}

\* No call of the API yet.
NoCall ==
    [fn |-> "none", job |-> "none", arg |-> "none", before |-> "none",
     fault |-> FALSE, raised |-> FALSE, logged |-> FALSE]

\* The descriptive columns of a jobs row that does not exist.
NoAttrs ==
    [repoRoot |-> "", baseBranch |-> "", taskDescription |-> "", userTask |-> "",
     pushResult |-> 0]

\* An empty database file: no rows, no call made, nothing read.
StoreIdle ==
    [jobs |-> [j \in JobIds |->
                  [db |-> EmptyDb, startedAt |-> 0, attrs |-> NoAttrs, createdAt |-> <<>>]],
     calls |-> 0,
     last |-> NoCall,
     active |-> "none"]

\* Largest number of tasks the sources of a dispatcher ever return, and the
\* largest number of passes in which a dispatcher finds no task.
MaxTasks == 3

MaxIdle == 2

\* options.sources, polled in order.
Sources == 1..2

\* A dispatcher that has not been started (task 0 is no task).
DispatcherIdle ==
    [pc |-> "new", stopWhenEmpty |-> FALSE, src |-> 1, processedAny |-> FALSE,
     task |-> 0, queue |-> [s \in Sources |-> <<>>], arrived |-> 0, idles |-> 0,
     log |-> <<>>]

\* Largest number of ticks of the dashboard's ticker.
MaxTicks == 3

\* The sockets that may subscribe to /ws.
Clients == {"c1", "c2"}

\* What JSON.stringify({type: "active_job", job}) may be: no active job, or
\* an active job in one of two conditions.
Payloads == {"null", "job-a", "job-b"}

\* The server after listen(): lastPayload is "", nobody is connected.
DashboardIdle ==
    [payload |-> "null", lastPayload |-> "", ticks |-> 0,
     clients |-> [c \in Clients |-> "closed"],
     tick |-> [sample |-> "", previous |-> "", open |-> {}, sentTo |-> {}]]

\* Largest number of bytes a child writes to one of its streams, and the
\* largest captureLimit.
MaxOutput == 3

MaxCaptureLimit == 2

\* The pipes of the child.
Streams == {"stdout", "stderr"}

\* A Process Runner that has spawned nothing.
CaptureIdle ==
    [limit |-> 0, state |-> "new",
     bytes |-> [k \in Streams |-> <<>>],
     text |-> [k \in Streams |-> <<>>]]

\* Largest number of pieces of text in the stdout or stderr of a Worker CLI.
MaxPieces == 2

\* No stage has run its Worker CLI.
StageIdle ==
    [fn |-> "none", stdout |-> <<>>, stderr |-> <<>>, code |-> 0, commit |-> "clean",
     outcome |-> "none", result |-> "none", recorded |-> "none"]

\* Largest number of updates the Telegram server receives, and largest
\* number of calls of nextTask.
MaxUpdates == 3

MaxPolls == 4

\* A Telegram task source that has not polled (offset 0: undefined), and a
\* server that has received no update.
TelegramIdle ==
    [offset |-> 0, queue |-> <<>>, polls |-> 0,
     server |-> <<>>,
     poll |-> [asked |-> 0, got |-> <<>>, after |-> 0, fault |-> FALSE],
     returned |-> <<>>]

\* Longest project-root string a stage is given.
MaxPathLen == 4

\* No stage has resolved a project root.
PathsIdle == [projectRoot |-> <<>>, context |-> FALSE, by |-> "none", resolved |-> <<>>]

\* The components beside the engine before they do anything.
OthersIdle ==
    /\ store = StoreIdle
    /\ dispatcher = DispatcherIdle
    /\ dashboard = DashboardIdle
    /\ capture = CaptureIdle
    /\ stage = StageIdle
    /\ telegram = TelegramIdle
    /\ paths = PathsIdle

\* The state of a run before its first step, whatever it was given.
RunInit ==
    /\ seen = {}
    /\ pc = "start"
    /\ userTask \in UserTasks
    /\ plan = NoPlan
    /\ batches = <<>>
    /\ batchIdx = 0
    /\ st = [k \in Subtasks |-> "idle"]
    /\ res = [k \in Subtasks |-> "none"]
    /\ subtaskResults = <<>>
    /\ mergeIdx = 0
    /\ mergeLog = <<>>
    /\ error = "none"
    /\ gitPointer = GitPointer
    /\ resultGit = <<>>
    /\ unmergedFiles = FALSE
    /\ mergeSummaries = <<>>
    /\ mergeResult = NoMergeResult
    /\ priorJob = db
    /\ takenNames = {}
    /\ subtaskSeq = 0
    /\ worktreeName = [k \in Subtasks |-> <<>>]
    /\ branch = [k \in Subtasks |-> NoBranch]

\* A run with the default options for a job id the State Store does not hold.
Init ==
    /\ db = EmptyDb
    /\ options = DefaultOptions
    /\ analysis = FALSE
    /\ RunInit
    /\ OthersIdle

\* An engine that is not running.
EngineIdle ==
    /\ db = EmptyDb
    /\ options = DefaultOptions
    /\ analysis = FALSE
    /\ RunInit

(***************************************************************************)
(* Stage writes whose call sites are not part of the sources at hand: the  *)
(* merge stage records its start, its result and its failure, and the      *)
(* caller of the engine ends every run with ensureTerminalJobStatus.       *)
(***************************************************************************)

persistMergeStart(d) == recordMergeStart(d)

persistMergeResult(d, mergeStatus) == recordMergeResult(d, mergeStatus)

persistMergeFailure(d) == recordMergeFailure(d)

finalizeJob(d) == ensureTerminalJobStatus(d, "done")

(***************************************************************************)
(* Plan stage                                                              *)
(***************************************************************************)

\* A persistPlan that writes the plan file and skips the State Store.
persistPlan_fileOnly(d, p, task) == d

\* persistPlan: the plan is recorded only for a non-empty user task.
persistPlan(d, p, task) ==
    IF task # "" THEN recordPlannerOutput(d, p) ELSE d

\* The run up to the Worker CLI call of codexPlanTask: the context is built,
\* the project root is checked and the job is marked planning.
engineStart(dirOk) ==
    /\ pc = "start"
    /\ IF dirOk
       THEN /\ db' = markJobStatus(db, "planning")
            /\ pc' = "plan"
       ELSE /\ db' = db
            /\ pc' = "threw"
    /\ error' = IF dirOk THEN error ELSE "setup"
    /\ observe(db')
    /\ UNCHANGED <<otherVars, inputVars, nameVars, branch, mergeVars, userTask, plan, batches, batchIdx, st, res,
                   subtaskResults, mergeIdx, mergeLog>>

\* The planner's output parsed (from stdout, or from stdout+stderr after a
\* non-zero exit): the plan is persisted and returned, the batches are built.
codexPlanTask_return(p) ==
    /\ pc = "plan"
    /\ db' = persistPlan(db, p, userTask)
    /\ plan' = p
    /\ batches' = buildBatches(p)
    /\ batchIdx' = 1
    /\ pc' = "loop"
    /\ observe(db')
    /\ UNCHANGED <<otherVars, inputVars, nameVars, branch, mergeVars, error, userTask, st, res, subtaskResults, mergeIdx, mergeLog>>

\* No JSON object could be recovered from the planner's output.
codexPlanTask_throw ==
    /\ pc = "plan"
    /\ pc' = "threw"
    /\ error' = "plan"
    /\ UNCHANGED <<otherVars, inputVars, nameVars, branch, mergeVars, db, seen, userTask, plan, batches, batchIdx, st, res,
                   subtaskResults, mergeIdx, mergeLog>>

(***************************************************************************)
(* Run-subtask stage and the batch loop                                    *)
(***************************************************************************)

\* batch.map(async ...): every closure of the batch is started.
batch_launch ==
    /\ pc = "loop"
    /\ batchIdx <= Len(batches)
    /\ st' = [k \in Subtasks |-> IF k \in inBatch(batchIdx) THEN "launched" ELSE st[k]]
    /\ LET named == nameBatch(plan, batches[batchIdx], subtaskSeq, takenNames, worktreeName)
       IN  /\ subtaskSeq' = named.seq
           /\ takenNames' = named.taken
           /\ worktreeName' = named.names
    /\ pc' = "join"
    /\ UNCHANGED <<otherVars, inputVars, branch, mergeVars, error, db, seen, userTask, plan, batches, batchIdx, res,
                   subtaskResults, mergeIdx, mergeLog>>

\* codexRunSubtask reaches ensureResultBranch: a git invocation of the stage's
\* setup (rev-parse, branch, worktree add), all with cwd repoRoot, is in flight.
codexRunSubtask_git(k) ==
    /\ st[k] = "launched"
    /\ st' = [st EXCEPT ![k] = "git"]
    /\ UNCHANGED <<otherVars, inputVars, nameVars, branch, mergeVars, error, db, seen, pc, userTask, plan, batches, batchIdx, res,
                   subtaskResults, mergeIdx, mergeLog>>

\* codexRunSubtask up to recordSubtaskStart: result branch and worktree are
\* ensured with git (a git failure rejects the stage before any write).
codexRunSubtask_setup(k, gitOk) ==
    /\ st[k] = "git"
    /\ IF gitOk
       THEN /\ db' = recordSubtaskStart(db, plan.subtasks[k].id,
                                         branchNameOf(worktreeName[k]))
            /\ st' = [st EXCEPT ![k] = "exec"]
            /\ res' = res
       ELSE /\ db' = db
            /\ st' = [st EXCEPT ![k] = "rejected"]
            /\ res' = [res EXCEPT ![k] = "error"]
    /\ observe(db')
    /\ UNCHANGED <<otherVars, inputVars, nameVars, branch, mergeVars, error, pc, userTask, plan, batches, batchIdx, subtaskResults,
                   mergeIdx, mergeLog>>

\* The Worker CLI ended.  outcome "ok" / "failed": a JSON result with that
\* status was parsed (after exit 0 or not); "unparsed": none was recovered,
\* or the commit failed.  reported is the branch field of the parsed JSON
\* (NoBranch when it has none).  The result is recorded in every case.
codexRunSubtask_exec(k, outcome, reported) ==
    LET branchName == branchNameOf(worktreeName[k])
        parsedBranch == IF outcome = "unparsed" THEN NoBranch ELSE reported
    IN  /\ st[k] = "exec"
        /\ db' = recordSubtaskResult(db, plan.subtasks[k].id,
                                     IF outcome = "ok" THEN "ok" ELSE "failed",
                                     parsedBranch, branchName)
        /\ branch' = [branch EXCEPT ![k] =
                          IF outcome = "unparsed" THEN NoBranch
                          ELSE IF parsedBranch # NoBranch THEN parsedBranch
                          ELSE branchName]
        /\ res' = [res EXCEPT ![k] = outcome]
        /\ st' = [st EXCEPT ![k] = "recorded"]
        /\ observe(db')
        /\ UNCHANGED <<otherVars, inputVars, nameVars, mergeVars, error, pc, userTask, plan, batches, batchIdx, subtaskResults,
                   mergeIdx, mergeLog>>

\* codexRunSubtask returns the parsed result (the closure pushes it) or throws.
codexRunSubtask_settle(k) ==
    /\ st[k] = "recorded"
    /\ IF res[k] = "unparsed"
       THEN /\ st' = [st EXCEPT ![k] = "rejected"]
            /\ subtaskResults' = subtaskResults
       ELSE /\ st' = [st EXCEPT ![k] = "fulfilled"]
            /\ subtaskResults' = Append(subtaskResults, k)
    /\ UNCHANGED <<otherVars, inputVars, nameVars, branch, mergeVars, error, db, seen, pc, userTask, plan, batches, batchIdx, res,
                   mergeIdx, mergeLog>>

\* A join that resolves as soon as one closure of the batch has fulfilled.
batch_join_first ==
    /\ pc = "join"
    /\ \E k \in inBatch(batchIdx) : st[k] = "fulfilled"
    /\ batchIdx' = batchIdx + 1
    /\ pc' = "loop"
    /\ UNCHANGED <<otherVars, inputVars, nameVars, branch, mergeVars, error, db, seen, userTask, plan, batches, st, res,
                   subtaskResults, mergeIdx, mergeLog>>

\* await Promise.all(batchPromises) resolves: every closure has fulfilled.
batch_join ==
    /\ pc = "join"
    /\ \A k \in inBatch(batchIdx) : st[k] = "fulfilled"
    /\ batchIdx' = batchIdx + 1
    /\ pc' = "loop"
    /\ UNCHANGED <<otherVars, inputVars, nameVars, branch, mergeVars, error, db, seen, userTask, plan, batches, st, res,
                   subtaskResults, mergeIdx, mergeLog>>

\* await Promise.all(batchPromises) rejects with the first rejection; the
\* other closures of the batch keep running.
batch_reject ==
    /\ pc = "join"
    /\ \E k \in inBatch(batchIdx) : st[k] = "rejected"
    /\ pc' = "threw"
    /\ error' = "subtask"
    /\ UNCHANGED <<otherVars, inputVars, nameVars, branch, mergeVars, db, seen, userTask, plan, batches, batchIdx, st, res,
                   subtaskResults, mergeIdx, mergeLog>>

(***************************************************************************)
(* Merge stage                                                             *)
(***************************************************************************)

MergeOutcomes == {"clean", "resolved", "unresolved", "tampered", "git_failed"}

\* What git and the Worker CLI do in one mergeBranchIntoResult call: the exit
\* code of git merge, whether files are unmerged after it, the .git pointer
\* after the Worker CLI run, whether files are still unmerged after that run.
MergeInputs ==
    [code : {0, 1}, conflicts : BOOLEAN, after : PointerContents, remaining : BOOLEAN]

\* A check that accepts any pointer content.
assertGitPointerUnchanged_any(before, after) == TRUE

\* assertGitPointerUnchanged: TRUE when it does not throw.
assertGitPointerUnchanged(before, after) == trim(after) = trim(before)

\* A merge that goes on to add and commit without re-querying the unmerged set.
mergeBranchSteps_norecheck(n, in, before) ==
    LET git(c) == [cmd |-> c, branch |-> n]
        start == <<git("merge"), git("diff")>>
    IN  IF in.code # 0 /\ ~in.conflicts
        THEN [outcome |-> "git_failed", cmds |-> start, pointer |-> before,
              conflicts |-> FALSE, unmerged |-> FALSE]
        ELSE IF in.conflicts
        THEN IF ~assertGitPointerUnchanged(before, in.after)
             THEN [outcome |-> "tampered", cmds |-> start, pointer |-> in.after,
                   conflicts |-> TRUE, unmerged |-> in.remaining]
             ELSE [outcome |-> "resolved",
                   cmds |-> start \o <<git("add"), git("commit")>>,
                   pointer |-> in.after, conflicts |-> in.remaining,
                   unmerged |-> in.remaining]
        ELSE [outcome |-> "clean", cmds |-> start \o <<git("add"), git("commit")>>,
              pointer |-> before, conflicts |-> FALSE, unmerged |-> FALSE]

\* mergeBranchIntoResult for the n-th branch: how it ends, the git commands
\* it issues in the result worktree, the .git pointer it leaves and whether
\* the summary it returns lists conflicts.
mergeBranchSteps(n, in, before) ==
    LET git(c) == [cmd |-> c, branch |-> n]
        start == <<git("merge"), git("diff")>>
    IN  IF in.code # 0 /\ ~in.conflicts
        THEN [outcome |-> "git_failed", cmds |-> start, pointer |-> before,
              conflicts |-> FALSE, unmerged |-> FALSE]
        ELSE IF in.conflicts
        THEN IF ~assertGitPointerUnchanged(before, in.after)
             THEN [outcome |-> "tampered", cmds |-> start, pointer |-> in.after,
                   conflicts |-> TRUE, unmerged |-> in.remaining]
             ELSE IF in.remaining
             THEN [outcome |-> "unresolved", cmds |-> start \o <<git("diff")>>,
                   pointer |-> in.after, conflicts |-> TRUE, unmerged |-> TRUE]
             ELSE [outcome |-> "resolved",
                   cmds |-> start \o <<git("diff"), git("add"), git("commit")>>,
                   pointer |-> in.after, conflicts |-> in.remaining,
                   unmerged |-> in.remaining]
        ELSE [outcome |-> "clean", cmds |-> start \o <<git("add"), git("commit")>>,
              pointer |-> before, conflicts |-> FALSE, unmerged |-> FALSE]

\* The notes of the merge result, word by word.
mergeNotes(summaries) ==
    IF \E n \in 1..Len(summaries) : summaries[n]
    THEN <<"Merged", ToString(Len(summaries)), "branches;", "conflicts", "were",
           "resolved", "via", "Codex", "where", "needed.">>
    ELSE <<"Merged", ToString(Len(summaries)), "branches", "without", "conflicts.">>

\* A merge that is called without awaiting the closures of the last batch.
codexMergeResults_begin_early ==
    /\ pc \in {"loop", "join"}
    /\ batchIdx >= Len(batches)
    /\ db' = persistMergeStart(db)
    /\ mergeIdx' = 1
    /\ pc' = "merge"
    /\ observe(db')
    /\ UNCHANGED <<otherVars, inputVars, nameVars, branch, mergeVars, error, userTask, plan, batches, batchIdx, st, res,
                   subtaskResults, mergeLog>>

\* codexMergeResults is called after the last batch: result branch and
\* result worktree are ensured.
codexMergeResults_begin ==
    /\ pc = "loop"
    /\ batchIdx > Len(batches)
    /\ db' = persistMergeStart(db)
    /\ mergeIdx' = 1
    /\ pc' = "merge"
    /\ observe(db')
    /\ UNCHANGED <<otherVars, inputVars, nameVars, branch, mergeVars, error, userTask, plan, batches, batchIdx, st, res,
                   subtaskResults, mergeLog>>

\* One branch: merge --no-commit, the unmerged set, the Worker CLI on
\* conflicts with the .git pointer check, the unmerged set again, commit.
mergeBranchIntoResult(in) ==
    LET r == mergeBranchSteps(mergeIdx, in, gitPointer)
        merged == r.outcome \in {"clean", "resolved"}
    IN  /\ pc = "merge"
        /\ mergeIdx <= Len(subtaskResults)
        /\ mergeLog' = Append(mergeLog, r.outcome)
        /\ resultGit' = resultGit \o r.cmds
        /\ gitPointer' = r.pointer
        /\ unmergedFiles' = r.unmerged
        /\ mergeSummaries' = IF merged THEN Append(mergeSummaries, r.conflicts)
                                       ELSE mergeSummaries
        /\ mergeResult' = mergeResult
        /\ IF merged
           THEN /\ mergeIdx' = mergeIdx + 1
                /\ db' = db
                /\ pc' = pc
           ELSE /\ mergeIdx' = mergeIdx
                /\ db' = persistMergeFailure(db)
                /\ pc' = "threw"
        /\ error' = IF merged THEN error ELSE "merge"
        /\ observe(db')
        /\ UNCHANGED <<otherVars, inputVars, nameVars, branch, userTask, plan, batches, batchIdx, st, res, subtaskResults>>

\* A merge stage that returns a result only when it was given branches.
codexMergeResults_return_nonempty ==
    /\ pc = "merge"
    /\ mergeIdx > Len(subtaskResults)
    /\ Len(subtaskResults) > 0
    /\ resultGit' = Append(resultGit, [cmd |-> "diff", branch |-> 0])
    /\ mergeResult' = [status |-> "ok", notes |-> mergeNotes(mergeSummaries)]
    /\ db' = persistMergeResult(db, mergeResult'.status)
    /\ pc' = "returned"
    /\ UNCHANGED <<gitPointer, unmergedFiles, mergeSummaries>>
    /\ observe(db')
    /\ UNCHANGED <<otherVars, inputVars, nameVars, branch, error, userTask, plan, batches, batchIdx, st, res,
                   subtaskResults, mergeIdx, mergeLog>>

\* Every branch is merged: the result {status: "ok", ...} is returned.
codexMergeResults_return ==
    /\ pc = "merge"
    /\ mergeIdx > Len(subtaskResults)
    /\ resultGit' = Append(resultGit, [cmd |-> "diff", branch |-> 0])
    /\ mergeResult' = [status |-> "ok", notes |-> mergeNotes(mergeSummaries)]
    /\ db' = persistMergeResult(db, mergeResult'.status)
    /\ pc' = "returned"
    /\ UNCHANGED <<gitPointer, unmergedFiles, mergeSummaries>>
    /\ observe(db')
    /\ UNCHANGED <<otherVars, inputVars, nameVars, branch, error, userTask, plan, batches, batchIdx, st, res,
                   subtaskResults, mergeIdx, mergeLog>>

\* The run ends, by return or by throw: the job is made terminal.
engineEnd ==
    /\ pc \in {"returned", "threw"}
    /\ db' = finalizeJob(db)
    /\ pc' = "ended"
    /\ observe(db')
    /\ UNCHANGED <<otherVars, inputVars, nameVars, branch, mergeVars, error, userTask, plan, batches, batchIdx, st, res,
                   subtaskResults, mergeIdx, mergeLog>>

Next ==
    \/ \E dirOk \in BOOLEAN : engineStart(dirOk)
    \/ \E p \in Plans : codexPlanTask_return(p)
    \/ codexPlanTask_throw
    \/ batch_launch
    \/ \E k \in Subtasks : codexRunSubtask_git(k)
    \/ \E k \in Subtasks, gitOk \in BOOLEAN : codexRunSubtask_setup(k, gitOk)
    \/ \E k \in Subtasks, outcome \in {"ok", "failed", "unparsed"} :
          codexRunSubtask_exec(k, outcome, NoBranch)
    \/ \E k \in Subtasks : codexRunSubtask_settle(k)
    \/ batch_join
    \/ batch_reject
    \/ codexMergeResults_begin
    \/ \E in \in MergeInputs : mergeBranchIntoResult(in)
    \/ codexMergeResults_return
    \/ engineEnd

Spec == Init /\ [][Next]_vars

(***************************************************************************)
(* Runs with any options, for a job id the State Store may already hold,   *)
(* and with Worker CLI results that may name a branch.                     *)
(***************************************************************************)

JobPlans ==
    {PlanOfGroups(cp, g) : cp \in BOOLEAN, g \in SeqsUpTo({"", "g1"}, MaxJobSubtasks)}

\* The rows an earlier run of a one-subtask plan left when it ended done.
DoneJob ==
    LET id == SubtaskId(1)
        branchName == branchNameOf(makeWorktreeName(id, 0, {}))
        planned == recordPlannerOutput(markJobStatus(EmptyDb, "planning"),
                                       PlanOfGroups(FALSE, <<"">>))
        ran == recordSubtaskResult(recordSubtaskStart(planned, id, branchName),
                                   id, "ok", NoBranch, branchName)
    IN  finalizeJob(persistMergeResult(persistMergeStart(ran), "ok"))

\* The rows an earlier run left when its only subtask ended without a result.
FailedJob ==
    LET id == SubtaskId(1)
        branchName == branchNameOf(makeWorktreeName(id, 0, {}))
        planned == recordPlannerOutput(markJobStatus(EmptyDb, "planning"),
                                       PlanOfGroups(FALSE, <<"">>))
        ran == recordSubtaskResult(recordSubtaskStart(planned, id, branchName),
                                   id, "failed", NoBranch, branchName)
    IN  finalizeJob(ran)

StoredJobs == {EmptyDb, DoneJob, FailedJob}

\* The branch field of a Worker CLI result: absent, or a branch the worker names.
ReportedBranches == {NoBranch, <<"b">>}

JobInit ==
    /\ db \in StoredJobs
    /\ options \in [enablePrefactor : BOOLEAN, pushResult : BOOLEAN]
    /\ analysis \in BOOLEAN
    /\ RunInit
    /\ OthersIdle

JobNext ==
    \/ \E dirOk \in BOOLEAN : engineStart(dirOk)
    \/ \E p \in JobPlans : codexPlanTask_return(p)
    \/ codexPlanTask_throw
    \/ batch_launch
    \/ \E k \in Subtasks : codexRunSubtask_git(k)
    \/ \E k \in Subtasks, gitOk \in BOOLEAN : codexRunSubtask_setup(k, gitOk)
    \/ \E k \in Subtasks, outcome \in {"ok", "failed", "unparsed"},
          reported \in ReportedBranches : codexRunSubtask_exec(k, outcome, reported)
    \/ \E k \in Subtasks : codexRunSubtask_settle(k)
    \/ batch_join
    \/ batch_reject
    \/ codexMergeResults_begin
    \/ \E in \in MergeInputs : mergeBranchIntoResult(in)
    \/ codexMergeResults_return
    \/ engineEnd

JobSpec == JobInit /\ [][JobNext]_vars

(***************************************************************************)
(* Runs in which every stage succeeds, for plans whose ids need sanitising *)
(***************************************************************************)

DistinctSeqs(S, n) ==
    {ids \in SeqsUpTo(S, n) :
        \A i \in 1..Len(ids), j \in 1..Len(ids) : ids[i] = ids[j] => i = j}

\* Plans over PlannerIds whose subtasks run as one batch (can_parallelize
\* and one group) or one after the other.
NamingPlans ==
    {PlanOf(cp, ids, [k \in 1..Len(ids) |-> "g1"]) :
        cp \in BOOLEAN, ids \in DistinctSeqs(PlannerIds, MaxSubtasks)}

\* A branch merge without conflicts.
CleanMerge == [code |-> 0, conflicts |-> FALSE, after |-> GitPointer, remaining |-> FALSE]

NamingNext ==
    \/ engineStart(TRUE)
    \/ \E p \in NamingPlans : codexPlanTask_return(p)
    \/ batch_launch
    \/ \E k \in Subtasks : codexRunSubtask_git(k)
    \/ \E k \in Subtasks : codexRunSubtask_setup(k, TRUE)
    \/ \E k \in Subtasks : codexRunSubtask_exec(k, "ok", NoBranch)
    \/ \E k \in Subtasks : codexRunSubtask_settle(k)
    \/ batch_join
    \/ codexMergeResults_begin
    \/ mergeBranchIntoResult(CleanMerge)
    \/ codexMergeResults_return
    \/ engineEnd

NamingSpec == Init /\ [][NamingNext]_vars

(***************************************************************************)
(* Runs in which every stage succeeds, for plans whose group labels are    *)
(* any strings the planner may return                                      *)
(***************************************************************************)

\* parallel_group is z.string(): the empty label, an ordinary label and a
\* label that reads like the key buildBatches makes for an unlabelled subtask.
GroupLabels == {"", "g1", "solo-2"}

GroupingPlans ==
    {PlanOfGroups(cp, g) : cp \in BOOLEAN, g \in SeqsUpTo(GroupLabels, MaxSubtasks)}

GroupingNext ==
    \/ engineStart(TRUE)
    \/ \E p \in GroupingPlans : codexPlanTask_return(p)
    \/ batch_launch
    \/ \E k \in Subtasks : codexRunSubtask_git(k)
    \/ \E k \in Subtasks : codexRunSubtask_setup(k, TRUE)
    \/ \E k \in Subtasks : codexRunSubtask_exec(k, "ok", NoBranch)
    \/ \E k \in Subtasks : codexRunSubtask_settle(k)
    \/ batch_join
    \/ codexMergeResults_begin
    \/ mergeBranchIntoResult(CleanMerge)
    \/ codexMergeResults_return
    \/ engineEnd

GroupingSpec == Init /\ [][GroupingNext]_vars

\* Every ready continuation is eventually run by the event loop, and every
\* external process ends.
FairSpec == Spec /\ WF_vars(Next)

(***************************************************************************)
(* State Store API: calls made by any caller, on a store whose statements  *)
(* may fail (fault) at any point of a call.                                *)
(***************************************************************************)

\* The values isoNow() may give a new jobs row.
Timestamps == {1, 2}

\* A write function whose catch block logs the error and throws it again.
storeCall_rethrow(d, written, fault) ==
    [db |-> IF fault THEN d ELSE written, raised |-> fault, logged |-> fault]

\* try { ... } catch (error) { logDbError(...) } of every write function: the
\* rows the call leaves (a failed statement or transaction writes nothing),
\* whether the call raised to its caller and whether it logged.
storeCall(d, written, fault) ==
    [db |-> IF fault THEN d ELSE written, raised |-> FALSE, logged |-> fault]

\* The context a caller of the write functions passes: what
\* buildOrchestratorContext returns for the options it is given, an option
\* that is not given being "undefined".  The object it returns has no
\* pushResult property, whatever it is given.
buildOrchestratorContext(o) ==
    [repoRoot |-> o.repoRoot,
     baseBranch |-> o.baseBranch,
     taskDescription |-> IF o.taskDescription # "undefined" THEN o.taskDescription
                         ELSE IF o.userTask # "undefined" THEN o.userTask ELSE "",
     userTask |-> IF o.userTask # "undefined" THEN o.userTask
                  ELSE IF o.taskDescription # "undefined" THEN o.taskDescription ELSE "",
     pushResult |-> "undefined"]

\* The values upsertJob binds to the descriptive columns: `a || b || ""` for
\* the two task texts and `context.pushResult ? 1 : 0`.
jobAttrs(ctx) ==
    [repoRoot |-> ctx.repoRoot,
     baseBranch |-> ctx.baseBranch,
     taskDescription |-> IF ctx.taskDescription # "" THEN ctx.taskDescription
                         ELSE ctx.userTask,
     userTask |-> IF ctx.userTask # "" THEN ctx.userTask ELSE ctx.taskDescription,
     pushResult |-> IF ctx.pushResult = "true" THEN 1 ELSE 0]

\* Whether a write function reaches upsertJob: every record function does,
\* markJobStatus only when the job has no row, ensureTerminalJobStatus never.
upserts(fn, row) ==
    \/ fn \notin {"markJobStatus", "ensureTerminalJobStatus"}
    \/ fn = "markJobStatus" /\ row.db.status = "none"

\* A write that sets created_at of every artifact row of the job.
stamp_touch(row, d, now, ctx, ran) ==
    [db |-> d,
     startedAt |-> IF row.db.status = "none" /\ d.status # "none"
                   THEN now ELSE row.startedAt,
     attrs |-> IF ran THEN jobAttrs(ctx) ELSE row.attrs,
     createdAt |-> [i \in 1..Len(d.artifacts) |-> now]]

\* The jobs row and the artifact rows after a call that left the rows d:
\* upsertJob sets started_at only when it inserts the jobs row and sets the
\* descriptive columns on every run (ON CONFLICT DO UPDATE SET ...); every
\* artifact is inserted with created_at = now.
stamp(row, d, now, ctx, ran) ==
    [db |-> d,
     startedAt |-> IF row.db.status = "none" /\ d.status # "none"
                   THEN now ELSE row.startedAt,
     attrs |-> IF ran THEN jobAttrs(ctx) ELSE row.attrs,
     createdAt |-> row.createdAt \o
                   [i \in 1..(Len(d.artifacts) - Len(row.db.artifacts)) |-> now]]

\* One call of a write function for job j with the context ctx.
storeWrite(j, ctx, fn, arg, written, fault, now) ==
    LET row == store.jobs[j]
        r == storeCall(row.db, written, fault)
    IN  /\ store.calls < MaxCalls
        /\ store' = [store EXCEPT
                        !.jobs[j] = stamp(row, r.db, now, ctx, ~fault /\ upserts(fn, row)),
                        !.calls = @ + 1,
                        !.last = [fn |-> fn, job |-> j, arg |-> arg,
                                  before |-> row.db.status, fault |-> fault,
                                  raised |-> r.raised, logged |-> r.logged]]
        /\ UNCHANGED storeFrame

\* The context the calls of the API are made with when only the rows matter.
StoreContext ==
    buildOrchestratorContext([repoRoot |-> "repo", baseBranch |-> "main",
                              taskDescription |-> "task", userTask |-> "task"])

storeStep(j, fn, arg, written, fault, now) ==
    storeWrite(j, StoreContext, fn, arg, written, fault, now)

\* The plan and the subtask the stage writes of the API are made for.
StorePlan == PlanOfGroups(FALSE, <<"">>)

StoreBranch == branchNameOf(makeWorktreeName(SubtaskId(1), 0, {}))

markJobStatus_call(j, status, fault, now) ==
    storeStep(j, "markJobStatus", status,
              markJobStatus(store.jobs[j].db, status), fault, now)

ensureTerminalJobStatus_call(j, fallback, fault, now) ==
    storeStep(j, "ensureTerminalJobStatus", fallback,
              ensureTerminalJobStatus(store.jobs[j].db, fallback), fault, now)

recordPlannerOutput_call(j, fault, now) ==
    storeStep(j, "recordPlannerOutput", "plan",
              recordPlannerOutput(store.jobs[j].db, StorePlan), fault, now)

recordAnalysisOutput_call(j, fault, now) ==
    storeStep(j, "recordAnalysisOutput", "analysis",
              recordAnalysisOutput(store.jobs[j].db), fault, now)

recordRefactorOutput_call(j, fault, now) ==
    storeStep(j, "recordRefactorOutput", "refactor",
              recordRefactorOutput(store.jobs[j].db), fault, now)

recordSubtaskStart_call(j, fault, now) ==
    storeStep(j, "recordSubtaskStart", "start",
              recordSubtaskStart(store.jobs[j].db, SubtaskId(1), StoreBranch), fault, now)

recordSubtaskResult_call(j, resultStatus, fault, now) ==
    storeStep(j, "recordSubtaskResult", resultStatus,
              recordSubtaskResult(store.jobs[j].db, SubtaskId(1), resultStatus,
                                  NoBranch, StoreBranch), fault, now)

recordMergeStart_call(j, fault, now) ==
    storeStep(j, "recordMergeStart", "merge",
              recordMergeStart(store.jobs[j].db), fault, now)

recordMergeResult_call(j, mergeStatus, fault, now) ==
    storeStep(j, "recordMergeResult", mergeStatus,
              recordMergeResult(store.jobs[j].db, mergeStatus), fault, now)

recordMergeFailure_call(j, fault, now) ==
    storeStep(j, "recordMergeFailure", "error",
              recordMergeFailure(store.jobs[j].db), fault, now)

\* A SELECT without the status filter.
ActiveCandidates_any(jobs) ==
    {j \in JobIds : jobs[j].db.status # "none"}

\* SELECT * FROM jobs WHERE status NOT IN ('done','failed','needs_manual_review')
ActiveCandidates(jobs) ==
    {j \in JobIds : jobs[j].db.status # "none" /\ ~isTerminal(jobs[j].db.status)}

\* ORDER BY started_at DESC LIMIT 1: any of the rows with the latest started_at.
LatestOf(jobs, C) ==
    {j \in C : \A k \in C : jobs[k].startedAt <= jobs[j].startedAt}

\* readActiveJob returns the job picked, or null ("none"): when no row
\* matches, and from its catch block when a statement fails.
readActiveJob_call(fault, picked) ==
    /\ store.calls < MaxCalls
    /\ picked \in IF fault \/ ActiveCandidates(store.jobs) = {}
                  THEN {"none"}
                  ELSE LatestOf(store.jobs, ActiveCandidates(store.jobs))
    /\ store' = [store EXCEPT
                    !.active = picked,
                    !.calls = @ + 1,
                    !.last = [fn |-> "readActiveJob", job |-> "none", arg |-> "none",
                              before |-> "none", fault |-> fault, raised |-> FALSE, logged |-> fault]]
    /\ UNCHANGED storeFrame

StoreInit == EngineIdle /\ OthersIdle

StoreNext ==
    \/ \E j \in JobIds, status \in JobStatus, fault \in BOOLEAN, now \in Timestamps :
          markJobStatus_call(j, status, fault, now)
    \/ \E j \in JobIds, fallback \in JobStatus, fault \in BOOLEAN, now \in Timestamps :
          ensureTerminalJobStatus_call(j, fallback, fault, now)
    \/ \E j \in JobIds, fault \in BOOLEAN, now \in Timestamps :
          recordPlannerOutput_call(j, fault, now)
    \/ \E j \in JobIds, fault \in BOOLEAN, now \in Timestamps :
          recordAnalysisOutput_call(j, fault, now)
    \/ \E j \in JobIds, fault \in BOOLEAN, now \in Timestamps :
          recordRefactorOutput_call(j, fault, now)
    \/ \E j \in JobIds, fault \in BOOLEAN, now \in Timestamps :
          recordSubtaskStart_call(j, fault, now)
    \/ \E j \in JobIds, resultStatus \in {"ok", "failed"}, fault \in BOOLEAN,
          now \in Timestamps : recordSubtaskResult_call(j, resultStatus, fault, now)
    \/ \E j \in JobIds, fault \in BOOLEAN, now \in Timestamps :
          recordMergeStart_call(j, fault, now)
    \/ \E j \in JobIds, mergeStatus \in {"ok", "needs_manual_review"},
          fault \in BOOLEAN, now \in Timestamps :
          recordMergeResult_call(j, mergeStatus, fault, now)
    \/ \E j \in JobIds, fault \in BOOLEAN, now \in Timestamps :
          recordMergeFailure_call(j, fault, now)
    \/ \E fault \in BOOLEAN, picked \in JobIds \cup {"none"} :
          readActiveJob_call(fault, picked)

StoreSpec == StoreInit /\ [][StoreNext]_vars

(***************************************************************************)
(* Task dispatcher: runTaskDispatcher with the reporter and the sources of *)
(* the repository (ConsoleTaskReporter, in-memory and Telegram sources)    *)
(***************************************************************************)

\* A call the dispatcher made: a hook, nextTask when it returned a task, the
\* runner ("run") and how its promise settled ("returned" or "threw").
Call(kind, task, ok) == [kind |-> kind, task |-> task, ok |-> ok]

logged(kind, ok) == Append(dispatcher.log, Call(kind, dispatcher.task, ok))

\* The for loop moves to the next source; after the last one the pass ends.
advance(d) ==
    IF d.src < Len(d.queue)
    THEN [d EXCEPT !.src = @ + 1, !.pc = "poll", !.task = 0]
    ELSE [d EXCEPT !.pc = "passEnd", !.task = 0]

\* await source.nextTask(): an empty Telegram queue is refilled by pollOnce
\* with the updates fetched (an in-memory queue is filled once); the head
\* is shifted off; null makes the loop continue with the next source.
nextTask(s, fetched) ==
    /\ dispatcher.pc = "poll"
    /\ dispatcher.src = s
    /\ dispatcher.arrived + fetched <= MaxTasks
    /\ dispatcher.queue[s] # <<>> => fetched = 0
    /\ LET new == [k \in 1..fetched |-> dispatcher.arrived + k]
           q == dispatcher.queue[s] \o new
       IN  dispatcher' =
             IF q = <<>>
             THEN advance(dispatcher)
             ELSE [dispatcher EXCEPT
                     !.queue[s] = Tail(q),
                     !.arrived = @ + fetched,
                     !.task = Head(q),
                     !.processedAny = TRUE,
                     !.log = Append(@, Call("nextTask", Head(q), TRUE)),
                     !.pc = "onStart"]
    /\ UNCHANGED dispatcherFrame

reporter_onStart ==
    /\ dispatcher.pc = "onStart"
    /\ dispatcher' = [dispatcher EXCEPT !.log = logged("onStart", TRUE), !.pc = "run"]
    /\ UNCHANGED dispatcherFrame

\* A runner that is started and not awaited.
runner_call_detached ==
    /\ dispatcher.pc = "run"
    /\ dispatcher' = [dispatcher EXCEPT !.log = logged("run", TRUE), !.pc = "onSuccess"]
    /\ UNCHANGED dispatcherFrame

\* runner(...) is called and awaited.
runner_call ==
    /\ dispatcher.pc = "run"
    /\ dispatcher' = [dispatcher EXCEPT !.log = logged("run", TRUE), !.pc = "await"]
    /\ UNCHANGED dispatcherFrame

\* A rejection of the runner that leaves the loop.
runner_settle_fatal(ok) ==
    /\ dispatcher.pc = "await"
    /\ dispatcher' =
          [dispatcher EXCEPT
             !.log = logged(IF ok THEN "returned" ELSE "threw", ok),
             !.pc = IF ok THEN "onSuccess" ELSE "exited"]
    /\ UNCHANGED dispatcherFrame

\* The engine run ends: its promise resolves (try) or rejects (catch).
runner_settle(ok) ==
    /\ dispatcher.pc = "await"
    /\ dispatcher' =
          [dispatcher EXCEPT
             !.log = logged(IF ok THEN "returned" ELSE "threw", ok),
             !.pc = IF ok THEN "onSuccess" ELSE "onFailure"]
    /\ UNCHANGED dispatcherFrame

reporter_onSuccess ==
    /\ dispatcher.pc = "onSuccess"
    /\ dispatcher' = [dispatcher EXCEPT !.log = logged("onSuccess", TRUE), !.pc = "markDone"]
    /\ UNCHANGED dispatcherFrame

\* A markDone that lets the error of sendMessage out, into the catch block.
source_markDone_rethrow(sent) ==
    /\ dispatcher.pc = "markDone"
    /\ dispatcher' =
          IF sent
          THEN advance([dispatcher EXCEPT !.log = logged("markDone", sent)])
          ELSE [dispatcher EXCEPT !.log = logged("markDone", sent), !.pc = "onFailure"]
    /\ UNCHANGED dispatcherFrame

\* source.markDone: a no-op, or a message whose send error is caught.
source_markDone(sent) ==
    /\ dispatcher.pc = "markDone"
    /\ dispatcher' = advance([dispatcher EXCEPT !.log = logged("markDone", sent)])
    /\ UNCHANGED dispatcherFrame

reporter_onFailure ==
    /\ dispatcher.pc = "onFailure"
    /\ dispatcher' = [dispatcher EXCEPT !.log = logged("onFailure", TRUE), !.pc = "markFailed"]
    /\ UNCHANGED dispatcherFrame

\* source.markFailed: a no-op, or a message whose send error is caught.
source_markFailed(sent) ==
    /\ dispatcher.pc = "markFailed"
    /\ dispatcher' = advance([dispatcher EXCEPT !.log = logged("markFailed", sent)])
    /\ UNCHANGED dispatcherFrame

\* After the for loop: another pass at once when a task was processed.
passEnd ==
    /\ dispatcher.pc = "passEnd"
    /\ dispatcher' =
          IF dispatcher.processedAny
          THEN [dispatcher EXCEPT !.processedAny = FALSE, !.src = 1, !.pc = "poll"]
          ELSE [dispatcher EXCEPT !.pc = "onIdle"]
    /\ UNCHANGED dispatcherFrame

\* reporter.onIdle, then break or sleep.
reporter_onIdle ==
    /\ dispatcher.pc = "onIdle"
    /\ dispatcher.idles < MaxIdle
    /\ dispatcher' =
          [dispatcher EXCEPT
             !.idles = @ + 1,
             !.pc = IF dispatcher.stopWhenEmpty THEN "exited" ELSE "sleep"]
    /\ UNCHANGED dispatcherFrame

\* sleep(pollIntervalMs) ends and the while loop starts its next pass.
sleep_wake ==
    /\ dispatcher.pc = "sleep"
    /\ dispatcher' = [dispatcher EXCEPT !.processedAny = FALSE, !.src = 1, !.pc = "poll"]
    /\ UNCHANGED dispatcherFrame

DispatchInit ==
    /\ EngineIdle
    /\ store = StoreIdle
    /\ dashboard = DashboardIdle
    /\ capture = CaptureIdle
    /\ stage = StageIdle
    /\ telegram = TelegramIdle
    /\ paths = PathsIdle
    /\ \E stop \in BOOLEAN :
          dispatcher = [DispatcherIdle EXCEPT !.pc = "poll", !.stopWhenEmpty = stop]

DispatchNext ==
    \/ \E s \in Sources, fetched \in 0..MaxTasks : nextTask(s, fetched)
    \/ reporter_onStart
    \/ runner_call
    \/ \E ok \in BOOLEAN : runner_settle(ok)
    \/ reporter_onSuccess
    \/ \E sent \in BOOLEAN : source_markDone(sent)
    \/ reporter_onFailure
    \/ \E sent \in BOOLEAN : source_markFailed(sent)
    \/ passEnd
    \/ reporter_onIdle
    \/ sleep_wake

DispatchSpec == DispatchInit /\ [][DispatchNext]_vars

\* The event loop runs every continuation that is ready, and every engine
\* run, hook and sleep ends.
DispatchFairSpec == DispatchSpec /\ WF_vars(DispatchNext)

(***************************************************************************)
(* Dashboard server: the ticker, the subscribers and the database it reads *)
(***************************************************************************)

\* The clients broadcast sends to: those whose readyState is OPEN.
OpenClients == {c \in Clients : dashboard.clients[c] = "open"}

\* A write to the database changes what buildActiveJobPayload() returns.
payloadChange(p) ==
    /\ p # dashboard.payload
    /\ dashboard' = [dashboard EXCEPT !.payload = p]
    /\ UNCHANGED dashboardFrame

\* wss.on("connection"): the initial payload goes to the new socket only and
\* lastPayload is left as it is.
connection(c) ==
    /\ dashboard.clients[c] = "closed"
    /\ dashboard' = [dashboard EXCEPT !.clients[c] = "open"]
    /\ UNCHANGED dashboardFrame

\* A socket starts closing (readyState CLOSING), then is closed.
socketClose(c) ==
    /\ dashboard.clients[c] \in {"open", "closing"}
    /\ dashboard' = [dashboard EXCEPT
                        !.clients[c] = IF @ = "open" THEN "closing" ELSE "closed"]
    /\ UNCHANGED dashboardFrame

\* A callback that broadcasts the changed payload and does not remember it.
tick_forgetful ==
    /\ dashboard.ticks < MaxTicks
    /\ LET payload == dashboard.payload
           changed == payload # dashboard.lastPayload
       IN  dashboard' =
             [dashboard EXCEPT
                !.ticks = @ + 1,
                !.tick = [sample |-> payload, previous |-> dashboard.tick.sample,
                          open |-> OpenClients,
                          sentTo |-> IF changed THEN OpenClients ELSE {}]]
    /\ UNCHANGED dashboardFrame

\* The setInterval callback: sample, compare with lastPayload, remember and
\* broadcast when it differs.
tick ==
    /\ dashboard.ticks < MaxTicks
    /\ LET payload == dashboard.payload
           changed == payload # dashboard.lastPayload
       IN  dashboard' =
             [dashboard EXCEPT
                !.ticks = @ + 1,
                !.lastPayload = IF changed THEN payload ELSE @,
                !.tick = [sample |-> payload, previous |-> dashboard.tick.sample,
                          open |-> OpenClients,
                          sentTo |-> IF changed THEN OpenClients ELSE {}]]
    /\ UNCHANGED dashboardFrame

DashboardInit == EngineIdle /\ OthersIdle

DashboardNext ==
    \/ \E p \in Payloads : payloadChange(p)
    \/ \E c \in Clients : connection(c)
    \/ \E c \in Clients : socketClose(c)
    \/ tick

DashboardSpec == DashboardInit /\ [][DashboardNext]_vars

(***************************************************************************)
(* Process Runner: runWithCodexTee's capture of the child's output         *)
(***************************************************************************)

\* Bytes of UTF-8 text: "a" is a one-byte character, "L" the lead byte and
\* "C" the continuation byte of the two-byte character "E".
Bytes == {"a", "L", "C"}

\* b is the beginning of well-formed UTF-8 text, and b is whole characters.
WellFormed(b) ==
    \A i \in 1..Len(b) :
        /\ b[i] = "C" => (i > 1 /\ b[i - 1] = "L")
        /\ (b[i] = "L" /\ i < Len(b)) => b[i + 1] = "C"

Complete(b) == WellFormed(b) /\ (Len(b) > 0 => b[Len(b)] # "L")

\* data.toString("utf8"): a lead byte without its continuation and a
\* continuation without its lead become the replacement character "?".
RECURSIVE toString(_)
toString(data) ==
    IF data = <<>> THEN <<>>
    ELSE IF data[1] = "L" /\ Len(data) >= 2 /\ data[2] = "C"
         THEN <<"E">> \o toString(SubSeq(data, 3, Len(data)))
         ELSE IF data[1] = "a"
              THEN <<"a">> \o toString(Tail(data))
              ELSE <<"?">> \o toString(Tail(data))

appendWithLimit(buffer, chunk, limit) ==
    IF limit <= 0 THEN buffer \o chunk
    ELSE LET next == buffer \o chunk
         IN  IF Len(next) <= limit THEN next
             ELSE SubSeq(next, Len(next) - limit + 1, Len(next))

\* A "data" event of a pipe: the chunk is decoded on its own and appended.
handleData(kind, data) ==
    /\ capture.state = "running"
    /\ data # <<>>
    /\ Len(capture.bytes[kind]) + Len(data) <= MaxOutput
    /\ WellFormed(capture.bytes[kind] \o data)
    /\ capture' =
          [capture EXCEPT
             !.bytes[kind] = @ \o data,
             !.text[kind] = appendWithLimit(@, toString(data), capture.limit)]
    /\ UNCHANGED captureFrame

\* The "close" event: the child has written whole characters; the promise
\* resolves with the captured strings on exit code 0 and rejects with an
\* error that carries them otherwise.
childClose(code) ==
    /\ capture.state = "running"
    /\ \A k \in Streams : Complete(capture.bytes[k])
    /\ capture' = [capture EXCEPT !.state = IF code = 0 THEN "resolved" ELSE "rejected"]
    /\ UNCHANGED captureFrame

CaptureInit ==
    /\ EngineIdle
    /\ store = StoreIdle
    /\ dispatcher = DispatcherIdle
    /\ dashboard = DashboardIdle
    /\ stage = StageIdle
    /\ telegram = TelegramIdle
    /\ paths = PathsIdle
    /\ \E limit \in 0..MaxCaptureLimit :
          capture = [CaptureIdle EXCEPT !.limit = limit, !.state = "running"]

CaptureNext ==
    \/ \E kind \in Streams, data \in SeqsUpTo(Bytes, 2) : handleData(kind, data)
    \/ \E code \in {0, 1} : childClose(code)

CaptureSpec == CaptureInit /\ [][CaptureNext]_vars

(***************************************************************************)
(* Plan and run-subtask stages: reading the result from the output of the  *)
(* Worker CLI                                                              *)
(***************************************************************************)

\* Output is a sequence of pieces of text: braces, the members of a JSON
\* object ("ok" and "failed": a subtask result with that status; "plan": a
\* planner output; "other": anything else), other text "x" and whitespace.
JsonBodies == {"ok", "failed", "plan", "other"}

OutputPieces ==
    {<<"{", b, "}">> : b \in JsonBodies} \cup {<<"x">>, <<"{">>, <<"}">>, <<"\n">>}

RECURSIVE joined(_)
joined(pieces) == IF pieces = <<>> THEN <<>> ELSE Head(pieces) \o joined(Tail(pieces))

\* What a Worker CLI may leave in stdout or stderr.
Outputs == {joined(ps) : ps \in SeqsUpTo(OutputPieces, MaxPieces)}

\* tryParseJson: the members of the object the text is, "null" when
\* JSON.parse throws (whitespace between tokens is allowed).
tryParseJson(text) ==
    LET w == SelectSeq(text, LAMBDA c : c \notin Whitespace)
    IN  IF Len(w) = 3 /\ w[1] = "{" /\ w[2] \in JsonBodies /\ w[3] = "}"
        THEN w[2]
        ELSE "null"

\* String.prototype.lastIndexOf(c, from) and indexOf(c), 1-based, 0 for -1.
lastIndexOf(text, c, from) ==
    LET at == {i \in 1..Len(text) : i <= from /\ text[i] = c}
    IN  IF at = {} THEN 0 ELSE CHOOSE i \in at : \A k \in at : k <= i

indexOf(text, c) ==
    LET at == {i \in 1..Len(text) : text[i] = c}
    IN  IF at = {} THEN 0 ELSE CHOOSE i \in at : \A k \in at : i <= k

\* An extraction that tries only the first "{" of the text.
extractLastJsonObject_first(text) ==
    LET trimmed == trim(text)
        lastClosing == lastIndexOf(trimmed, "}", Len(trimmed))
        start == indexOf(trimmed, "{")
    IN  IF trimmed = <<>> THEN "threw"
        ELSE IF tryParseJson(trimmed) # "null" THEN tryParseJson(trimmed)
        ELSE IF lastClosing = 0 \/ start = 0 \/ start > lastClosing THEN "threw"
        ELSE IF tryParseJson(SubSeq(trimmed, start, lastClosing)) # "null"
             THEN tryParseJson(SubSeq(trimmed, start, lastClosing))
             ELSE "threw"

\* codexRunSubtaskTool's extractLastJsonObject: the candidates end at the
\* last "}" and start at a "{" before it, the nearest first.
extractLastJsonObject(text) ==
    LET trimmed == trim(text)
        lastClosing == lastIndexOf(trimmed, "}", Len(trimmed))
        starts == {i \in 1..lastClosing :
                     /\ trimmed[i] = "{"
                     /\ tryParseJson(SubSeq(trimmed, i, lastClosing)) # "null"}
    IN  IF trimmed = <<>> THEN "threw"
        ELSE IF tryParseJson(trimmed) # "null" THEN tryParseJson(trimmed)
        ELSE IF starts = {} THEN "threw"
        ELSE tryParseJson(SubSeq(trimmed, CHOOSE i \in starts : \A k \in starts : k <= i,
                                 lastClosing))

\* codexPlanTaskTool's extractJsonObject: one candidate, from the first "{"
\* to the last "}".
extractJsonObject(text) ==
    LET trimmed == trim(text)
        first == indexOf(trimmed, "{")
        last == lastIndexOf(trimmed, "}", Len(trimmed))
    IN  IF trimmed = <<>> THEN "threw"
        ELSE IF tryParseJson(trimmed) # "null" THEN tryParseJson(trimmed)
        ELSE IF first = 0 \/ last = 0 \/ last <= first THEN "threw"
        ELSE IF tryParseJson(SubSeq(trimmed, first, last)) # "null"
             THEN tryParseJson(SubSeq(trimmed, first, last))
             ELSE "threw"

\* normalizeOutput of each stage: the schema's parse throws on anything
\* that is not the stage's result.
normalizeSubtaskOutput(raw) == IF raw \in {"ok", "failed"} THEN raw ELSE "threw"

normalizePlanOutput(raw) == IF raw = "plan" THEN raw ELSE "threw"

\* `${stdout}\n${stderr}`
combinedOutput(s) == s.stdout \o <<"\n">> \o s.stderr

\* stdout || stderr
firstOutput(s) == IF s.stdout # <<>> THEN s.stdout ELSE s.stderr

\* codexRunSubtask from the end of the Worker CLI: exit 0 enters the try
\* block, whose parse or commit may throw; any other exit code rejects the
\* exec promise.  The catch block parses the combined output, commits and
\* records; when that throws too, a failed result is recorded and the
\* stage throws.
codexRunSubtask_parse ==
    LET first == IF stage.code = 0
                 THEN normalizeSubtaskOutput(extractLastJsonObject(firstOutput(stage)))
                 ELSE "threw"
        second == normalizeSubtaskOutput(extractLastJsonObject(combinedOutput(stage)))
        parsed == IF first # "threw" THEN first ELSE second
        returns == parsed # "threw" /\ stage.commit # "failed"
    IN  /\ stage.fn = "codexRunSubtask"
        /\ stage.outcome = "none"
        /\ stage' = [stage EXCEPT
                        !.outcome = IF returns THEN "returned" ELSE "threw",
                        !.result = IF returns THEN parsed ELSE "none",
                        !.recorded = IF returns THEN parsed ELSE "failed"]
        /\ UNCHANGED stageFrame

\* codexPlanTask from the end of the Worker CLI; persistPlan swallows its
\* errors.
codexPlanTask_parse ==
    LET first == IF stage.code = 0
                 THEN normalizePlanOutput(extractJsonObject(firstOutput(stage)))
                 ELSE "threw"
        second == normalizePlanOutput(extractJsonObject(combinedOutput(stage)))
        parsed == IF first # "threw" THEN first ELSE second
    IN  /\ stage.fn = "codexPlanTask"
        /\ stage.outcome = "none"
        /\ stage' = [stage EXCEPT
                        !.outcome = IF parsed # "threw" THEN "returned" ELSE "threw",
                        !.result = IF parsed # "threw" THEN parsed ELSE "none",
                        !.recorded = IF parsed # "threw" THEN parsed ELSE "none"]
        /\ UNCHANGED stageFrame

RecoveryInit ==
    /\ EngineIdle
    /\ store = StoreIdle
    /\ dispatcher = DispatcherIdle
    /\ dashboard = DashboardIdle
    /\ capture = CaptureIdle
    /\ telegram = TelegramIdle
    /\ paths = PathsIdle
    /\ \E fn \in {"codexPlanTask", "codexRunSubtask"}, out \in Outputs, err \in Outputs,
          code \in {0, 1}, commit \in {"clean", "failed"} :
          /\ fn = "codexPlanTask" => commit = "clean"
          /\ stage = [StageIdle EXCEPT !.fn = fn, !.stdout = out, !.stderr = err,
                                       !.code = code, !.commit = commit]

RecoveryNext ==
    \/ codexRunSubtask_parse
    \/ codexPlanTask_parse

RecoverySpec == RecoveryInit /\ [][RecoveryNext]_vars

(***************************************************************************)
(* The jobs row over the writes of one run: the plan stage writes with the *)
(* context the engine built, the run-subtask stage with a context it       *)
(* builds itself.                                                          *)
(***************************************************************************)

\* runDeterministicOrchestrator: taskDescription and userTask are the task.
engineContext ==
    buildOrchestratorContext([repoRoot |-> "repo", baseBranch |-> "main",
                              taskDescription |-> userTask, userTask |-> userTask])

\* codexRunSubtask: buildOrchestratorContext({repoRoot, jobId, baseBranch}).
stageContext ==
    buildOrchestratorContext([repoRoot |-> "repo", baseBranch |-> "main",
                              taskDescription |-> "undefined", userTask |-> "undefined"])

\* recordPlannerOutput's contextWithTask.
contextWithTask(ctx, task) ==
    [ctx EXCEPT
        !.taskDescription = IF ctx.taskDescription # "" THEN ctx.taskDescription
                            ELSE IF task # "" THEN task ELSE ctx.userTask,
        !.userTask = IF ctx.userTask # "" THEN ctx.userTask
                     ELSE IF task # "" THEN task ELSE ctx.taskDescription]

\* codexPlanTask marks the job planning before it runs the Worker CLI.
codexPlanTask_mark(j, fault, now) ==
    storeWrite(j, engineContext, "markJobStatus", "planning",
               markJobStatus(store.jobs[j].db, "planning"), fault, now)

\* codexPlanTask persists the plan it parsed.
codexPlanTask_persist(j, fault, now) ==
    storeWrite(j, contextWithTask(engineContext, userTask), "recordPlannerOutput", "plan",
               persistPlan(store.jobs[j].db, StorePlan, userTask), fault, now)

\* What detectCurrentBranch returns for the worktree of the subtask: nothing
\* (the worktree is new, or git prints no name), or the first line of
\* `git rev-parse --abbrev-ref HEAD`, a branch name as git allows it.
DetectedBranches == {NoBranch, <<"a">>, <<"a", "#", "1">>}

\* The branch field of the result the Worker CLI prints: z.string().optional().
WorkerBranches == {NoBranch, <<"b">>, <<"a", " ", "b">>, <<"b", ".">>}

\* branchName of codexRunSubtask: the sanitised task-<worktree>-<job>, or the
\* current branch of a worktree that exists (`current || branchName`).
stageBranch(current) == IF current # NoBranch THEN current ELSE StoreBranch

\* codexRunSubtask records the start of the subtask, then its result.
codexRunSubtask_start(j, current, fault, now) ==
    storeWrite(j, stageContext, "recordSubtaskStart", "start",
               recordSubtaskStart(store.jobs[j].db, SubtaskId(1), stageBranch(current)),
               fault, now)

codexRunSubtask_result(j, current, reported, resultStatus, fault, now) ==
    storeWrite(j, stageContext, "recordSubtaskResult", resultStatus,
               recordSubtaskResult(store.jobs[j].db, SubtaskId(1), resultStatus,
                                   reported, stageBranch(current)), fault, now)

ContextInit == EngineIdle /\ OthersIdle

ContextNext ==
    \/ \E j \in JobIds, fault \in BOOLEAN, now \in Timestamps :
          codexPlanTask_mark(j, fault, now)
    \/ \E j \in JobIds, fault \in BOOLEAN, now \in Timestamps :
          codexPlanTask_persist(j, fault, now)
    \/ \E j \in JobIds, current \in DetectedBranches, fault \in BOOLEAN,
          now \in Timestamps : codexRunSubtask_start(j, current, fault, now)
    \/ \E j \in JobIds, current \in DetectedBranches, reported \in WorkerBranches,
          resultStatus \in {"ok", "failed"}, fault \in BOOLEAN, now \in Timestamps :
          codexRunSubtask_result(j, current, reported, resultStatus, fault, now)

ContextSpec == ContextInit /\ [][ContextNext]_vars

(***************************************************************************)
(* Telegram task source.  telegram.server[i] is the update with update_id  *)
(* i as the server holds it: "admin" for a text message of the admin user, *)
(* "other" for anything else.  Tasks are named by their update_id.         *)
(***************************************************************************)

UpdateKinds == {"admin", "other"}

\* client.getUpdates({offset, ...}): the updates at or above the offset (all
\* of them when the offset is undefined), oldest first, at most limit.
getUpdates(server, offset, limit) ==
    LET from == IF offset = 0 THEN 1 ELSE offset
    IN  [i \in 1..(IF Len(server) - from + 1 < 0 THEN 0
                    ELSE IF Len(server) - from + 1 < limit THEN Len(server) - from + 1
                    ELSE limit) |-> from + i - 1]

\* maybeEnqueue: only a text message of the admin user becomes a task.
enqueues(server, id) == server[id] = "admin"

\* A pollOnce that enqueues the updates and leaves the offset as it was.
pollOnce_stale(s, updates) ==
    [offset |-> s.offset,
     queue |-> s.queue \o SelectSeq(updates, LAMBDA id : enqueues(s.server, id))]

\* pollOnce after getUpdates returned: the offset goes past the last update,
\* every update goes through maybeEnqueue.
pollOnce(s, updates) ==
    [offset |-> IF Len(updates) > 0 THEN updates[Len(updates)] + 1 ELSE s.offset,
     queue |-> s.queue \o SelectSeq(updates, LAMBDA id : enqueues(s.server, id))]

\* A message reaches the bot.
server_receive(kind) ==
    /\ Len(telegram.server) < MaxUpdates
    /\ telegram' = [telegram EXCEPT !.server = Append(@, kind)]
    /\ UNCHANGED telegramFrame

\* nextTask with a task in the queue: queue.shift().
nextTask_queued ==
    /\ telegram.polls < MaxPolls
    /\ telegram.queue # <<>>
    /\ telegram' = [telegram EXCEPT
                       !.polls = @ + 1,
                       !.queue = Tail(@),
                       !.returned = Append(@, Head(telegram.queue))]
    /\ UNCHANGED telegramFrame

\* nextTask with an empty queue: pollOnce (a getUpdates that throws is
\* logged and changes nothing), then queue.shift() ?? null.
nextTask_poll(fault, limit) ==
    LET got == IF fault THEN <<>>
               ELSE getUpdates(telegram.server, telegram.offset, limit)
        polled == IF fault THEN [offset |-> telegram.offset, queue |-> telegram.queue]
                  ELSE pollOnce(telegram, got)
    IN  /\ telegram.polls < MaxPolls
        /\ telegram.queue = <<>>
        /\ telegram' = [telegram EXCEPT
                           !.polls = @ + 1,
                           !.offset = polled.offset,
                           !.queue = IF polled.queue = <<>> THEN <<>> ELSE Tail(polled.queue),
                           !.returned = IF polled.queue = <<>> THEN @
                                        ELSE Append(@, Head(polled.queue)),
                           !.poll = [asked |-> telegram.offset, got |-> got,
                                     after |-> polled.offset, fault |-> fault]]
        /\ UNCHANGED telegramFrame

TelegramInit == EngineIdle /\ OthersIdle

TelegramNext ==
    \/ \E kind \in UpdateKinds : server_receive(kind)
    \/ nextTask_queued
    \/ \E fault \in BOOLEAN, limit \in 1..MaxUpdates : nextTask_poll(fault, limit)

TelegramSpec == TelegramInit /\ [][TelegramNext]_vars

(***************************************************************************)
(* Project root of a stage.  A path is the sequence of its characters.    *)
(***************************************************************************)

PathChars == {"/", "r", "x", ".", " "}

\* The project_root parameter of a stage.
ProjectRoots == SeqsUpTo(PathChars, MaxPathLen)

\* context.repoRoot, and the working directory of the process.
RepoRoot == <<"/", "r">>

Cwd == <<"/", "x">>

\* The segments of a path between its separators, empty ones included.
RECURSIVE segments(_, _, _)
segments(p, cur, out) ==
    IF p = <<>> THEN Append(out, cur)
    ELSE IF Head(p) = "/" THEN segments(Tail(p), <<>>, Append(out, cur))
    ELSE segments(Tail(p), Append(cur, Head(p)), out)

\* Normalisation as path.resolve does it: "" and "." are dropped, ".." takes
\* the segment before it away (none at the root).
RECURSIVE normalizeSegments(_, _)
normalizeSegments(segs, out) ==
    IF segs = <<>> THEN out
    ELSE IF Head(segs) \in {<<>>, <<".">>} THEN normalizeSegments(Tail(segs), out)
    ELSE IF Head(segs) = <<".", ".">>
    THEN normalizeSegments(Tail(segs),
                           IF out = <<>> THEN out ELSE SubSeq(out, 1, Len(out) - 1))
    ELSE normalizeSegments(Tail(segs), Append(out, Head(segs)))

RECURSIVE joinSegments(_)
joinSegments(segs) ==
    IF segs = <<>> THEN <<>> ELSE <<"/">> \o Head(segs) \o joinSegments(Tail(segs))

\* path.isAbsolute
isAbsolute(p) == p # <<>> /\ p[1] = "/"

\* path.resolve(base, p) for an absolute base.
pathResolve(base, p) ==
    LET full == IF isAbsolute(p) THEN p ELSE base \o <<"/">> \o p
        segs == normalizeSegments(segments(full, <<>>, <<>>), <<>>)
    IN  IF segs = <<>> THEN <<"/">> ELSE joinSegments(segs)

\* String.prototype.startsWith
startsWith(s, prefix) ==
    Len(prefix) <= Len(s) /\ SubSeq(s, 1, Len(prefix)) = prefix

\* resolveProjectRoot(projectRoot, runContext); context: whether the run
\* context has a repoRoot.
resolveProjectRoot(projectRoot, context) ==
    LET explicit == trim(projectRoot)
        repoRoot == pathResolve(Cwd, RepoRoot)
        candidate == pathResolve(repoRoot, explicit)
    IN  IF context
        THEN IF explicit # <<>> /\ (candidate = repoRoot \/ startsWith(candidate, repoRoot))
             THEN candidate
             ELSE repoRoot
        ELSE IF isAbsolute(projectRoot) THEN projectRoot
        ELSE pathResolve(Cwd, projectRoot)

\* The plan stage and the analyze stage resolve the project root they are
\* given before anything else.
codexPlanTask_resolve ==
    /\ paths.by = "none"
    /\ paths' = [paths EXCEPT !.by = "codexPlanTask",
                              !.resolved = resolveProjectRoot(paths.projectRoot, paths.context)]
    /\ UNCHANGED pathsFrame

codexAnalyzeProject_resolve ==
    /\ paths.by = "none"
    /\ paths' = [paths EXCEPT !.by = "codexAnalyzeProject",
                              !.resolved = resolveProjectRoot(paths.projectRoot, paths.context)]
    /\ UNCHANGED pathsFrame

PathsInit ==
    /\ EngineIdle
    /\ store = StoreIdle
    /\ dispatcher = DispatcherIdle
    /\ dashboard = DashboardIdle
    /\ capture = CaptureIdle
    /\ stage = StageIdle
    /\ telegram = TelegramIdle
    /\ \E projectRoot \in ProjectRoots, context \in BOOLEAN :
          paths = [PathsIdle EXCEPT !.projectRoot = projectRoot, !.context = context]

PathsNext ==
    \/ codexPlanTask_resolve
    \/ codexAnalyzeProject_resolve

PathsSpec == PathsInit /\ [][PathsNext]_vars

(***************************************************************************)
(* Properties                                                              *)
(***************************************************************************)

\* The positions of the subtasks of the plan.
Planned == 1..Len(plan.subtasks)

\* The ways a run-subtask stage ends as failed: a parsed result whose status
\* is failed, no recoverable JSON, or an error before the Worker CLI ran.
FailedOutcomes == {"failed", "unparsed", "error"}

\* C1: the persisted status of the job never moves to a lower priority in
\* the order analyzing < refactoring < planning < running < merging < done <
\* needs_manual_review < failed, whatever write is made.
StatusNeverLowered ==
    [][db.status # "none" => priority[db'.status] >= priority[db.status]]_vars

\* C2: once the persisted status is done, failed or needs_manual_review, no
\* later write changes it.
TerminalStatusFrozen ==
    [][isTerminal(db.status) => db'.status = db.status]_vars

\* C3: no subtask of a later batch is started until every subtask of every
\* earlier batch has finished its run-subtask stage.
BatchesInOrder ==
    \A i \in Planned, j \in Planned :
        (st[i] # "idle" /\ batchOf(j) < batchOf(i)) => st[j] = "fulfilled"

\* C3 case: groups g1,g1,g2 - the third subtask has started, and both of
\* the first two have finished.
BatchesInOrderWitness ==
    /\ plan = PlanOfGroups(TRUE, <<"g1", "g1", "g2">>)
    /\ batches = << <<1, 2>>, <<3>> >>
    /\ st[3] = "exec"
    /\ st[1] = "fulfilled" /\ st[2] = "fulfilled"

\* C4: if a subtask of a batch finishes as failed, no subtask of a later
\* batch is ever started.
NoBatchAfterFailure ==
    \A i \in Planned, j \in Planned :
        (res[j] \in FailedOutcomes /\ batchOf(j) < batchOf(i)) => st[i] = "idle"

\* C5: if a subtask finishes as failed, the merge stage is never invoked.
NoMergeAfterFailure ==
    (\E k \in Planned : res[k] \in FailedOutcomes) => mergeIdx = 0

\* A fatal stage failure: a subtask failed, a stage's output held no
\* recoverable JSON object, or a branch merge ended unresolved or tampered.
FatalFailure ==
    \/ \E k \in Planned : res[k] \in FailedOutcomes
    \/ error = "plan"
    \/ \E n \in 1..Len(mergeLog) : mergeLog[n] \in {"unresolved", "tampered"}

\* C6: after a fatal stage failure the persisted status at the end of the
\* run is failed.
FatalFailureEndsFailed ==
    (pc = "ended" /\ FatalFailure) => db.status = "failed"

\* C7: once the run has ended, by return or by error, the persisted status
\* of the job is terminal.
EndedJobIsTerminal ==
    (pc = "ended" /\ db.status # "none") => isTerminal(db.status)

\* No stage has failed so far.
NoFailure ==
    /\ error = "none"
    /\ \A k \in Subtasks : res[k] \in {"none", "ok"}

DoneThroughRunningAndMerging ==
    db.status = "done" /\ {"running", "merging"} \subseteq seen

ArtifactTypes == [n \in 1..Len(db.artifacts) |-> db.artifacts[n].type]

BranchesDistinct ==
    \A i \in Planned, j \in Planned :
        i # j =>
            /\ branch[i] # NoBranch => branch[i] # branch[j]
            /\ db.branches[plan.subtasks[i].id] # NoBranch
                  => db.branches[plan.subtasks[i].id] # db.branches[plan.subtasks[j].id]

\* C12: the worktree names of the subtasks of a plan are pairwise distinct,
\* also when two ids sanitise to the same fragment or to a fragment equal to
\* the suffixed name of another subtask, and when the run-subtask stages of
\* the subtasks are started together.
WorktreeNamesDistinct ==
    \A i \in Planned, j \in Planned :
        (worktreeName[i] # <<>> /\ worktreeName[i] = worktreeName[j]) => i = j

\* C12 case: ids "a", "A", "a-2" in one batch, all three stages running: the
\* second name is the first with suffix 2, which is also the base name of the
\* third.
WorktreeNamesDistinctWitness ==
    /\ Len(plan.subtasks) = 3
    /\ plan.can_parallelize
    /\ plan.subtasks[1].id = <<"a">>
    /\ plan.subtasks[2].id = <<"A">>
    /\ plan.subtasks[3].id = <<"a", "-", "2">>
    /\ \A k \in Planned : st[k] = "exec"
    /\ worktreeName[1] = TaskPrefix \o <<"a">>
    /\ worktreeName[2] = TaskPrefix \o <<"a", "-", "2">>
    /\ worktreeName[3] = TaskPrefix \o <<"a", "-", "2", "-", "2">>

\* A run-subtask stage of subtask k is in progress.
InProgress(k) == st[k] \in {"launched", "git", "exec", "recorded"}

\* The number of closures the batch loop starts for subtask k.
LaunchCount(k) ==
    Cardinality({nm \in (1..Len(batches)) \X (1..MaxSubtasks + 1) :
                    /\ nm[2] <= Len(batches[nm[1]])
                    /\ batches[nm[1]][nm[2]] = k})

GitCwdExclusive ==
    \A i \in Subtasks, j \in Subtasks :
        (st[i] = "git" /\ st[j] = "git") => i = j

\* No git command among cmds is issued for the n-th branch or a later one.
NoneIssuedFrom(cmds, n) ==
    \A m \in 1..Len(resultGit) :
        resultGit[m].cmd \in cmds => (resultGit[m].branch < n /\ resultGit[m].branch # 0)

LastMerge == IF mergeLog = <<>> THEN "none" ELSE mergeLog[Len(mergeLog)]

\* C15 as stated: if the .git pointer read after the Worker CLI run is not
\* byte-for-byte the content read before it, the merge fails, the whole
\* merge is aborted and no commit is made for that branch or a later one.
PointerByteChangeAborts ==
    [][gitPointer' # gitPointer
          => (pc' = "threw" /\ NoneIssuedFrom({"commit"}, mergeIdx)')]_vars

\* C15, on trimmed contents: if the .git pointer read after the Worker CLI
\* run differs from the content read before it in more than leading or
\* trailing whitespace, the merge fails, the whole merge is aborted and no
\* commit is made for that branch or a later one.
PointerChangeAborts ==
    /\ [][trim(gitPointer') # trim(gitPointer)
             => (pc' = "threw" /\ LastMerge' = "tampered")]_vars
    /\ [](LastMerge = "tampered"
             => (pc \in {"threw", "ended"} /\ NoneIssuedFrom({"commit"}, mergeIdx)))

\* C15 case: the second branch of a merge ended on a changed pointer, after
\* the first branch was committed.
PointerChangeAbortsWitness ==
    /\ Len(mergeLog) = 2
    /\ LastMerge = "tampered"
    /\ trim(gitPointer) # trim(GitPointer)
    /\ pc = "ended"

\* C16: if files are still unmerged when the unmerged set is queried again
\* after the Worker CLI run, the merge of the branch fails and neither git
\* add nor git commit is issued for that branch or a later one.
UnresolvedAborts ==
    /\ [][(pc = "merge" /\ unmergedFiles' /\ LastMerge' # "tampered")
             => (pc' = "threw" /\ LastMerge' = "unresolved")]_vars
    /\ [](LastMerge = "unresolved"
             => (pc \in {"threw", "ended"}
                 /\ NoneIssuedFrom({"add", "commit"}, mergeIdx)))

\* C16 case: the second branch of a merge ended with files still unmerged.
UnresolvedAbortsWitness ==
    /\ Len(mergeLog) = 2
    /\ LastMerge = "unresolved"
    /\ unmergedFiles
    /\ \E m \in 1..Len(resultGit) : resultGit[m] = [cmd |-> "commit", branch |-> 1]

\* The Plan stage returned a plan without subtasks.
EmptyPlanReturned == batchIdx >= 1 /\ Len(plan.subtasks) = 0

Pushes == {m \in 1..Len(resultGit) : resultGit[m].cmd = "push"}

\* C17: when pushResult is enabled and every branch merge succeeded, exactly
\* one git push of the result branch is issued, after the last merge commit,
\* and the notes of the merge result contain "pushed".
PushedOnceAfterMerges ==
    (options.pushResult /\ pc \in {"returned", "ended"} /\ mergeResult.status = "ok")
        => /\ Cardinality(Pushes) = 1
           /\ \A m \in Pushes, c \in 1..Len(resultGit) :
                 resultGit[c].cmd = "commit" => c < m
           /\ \E w \in 1..Len(mergeResult.notes) : mergeResult.notes[w] = "pushed"

\* The artifacts this run has appended.
NewArtifacts == (Len(priorJob.artifacts) + 1)..Len(db.artifacts)

\* The Refactor stage has run: it records a refactor artifact.
RefactorRan == \E n \in NewArtifacts : db.artifacts[n].type = "refactor"

\* C18: by the time the Plan stage has returned, the Refactor stage has run
\* exactly when enablePrefactor is set and Analyze answers shouldRefactor =
\* true for the repository.
RefactorIffAdvised ==
    pc \in {"loop", "join", "merge", "returned"}
        => (RefactorRan <=> (options.enablePrefactor /\ analysis))

\* C20: a run for a job id whose stored status is terminal leaves the
\* status as it was and appends no plan, merge_input or merge_result
\* artifact.
RerunLeavesTerminalJob ==
    isTerminal(priorJob.status)
        => /\ db.status = priorJob.status
           /\ \A n \in NewArtifacts :
                 db.artifacts[n].type \notin {"plan", "merge_input", "merge_result"}

\* C21: every State Store write call returns normally to its caller whatever
\* storage error occurs inside it: the error is logged and never raised, and
\* the failed call leaves the caller on its path.
StoreWritesReturn ==
    store.last.fn # "none" =>
        /\ ~store.last.raised
        /\ store.last.fault => store.last.logged

\* A write call in which a statement failed, made after an earlier call.
StoreWritesReturnWitness ==
    /\ store.last.fn = "recordSubtaskStart"
    /\ store.last.fault
    /\ store.calls >= 2
    /\ store.jobs[store.last.job].db.status # "none"

\* A step that is a call of ensureTerminalJobStatus.
EnsureTerminalCalled ==
    /\ store'.calls = store.calls + 1
    /\ store'.last.fn = "ensureTerminalJobStatus"

\* C22 as stated: ensureTerminalJobStatus(fallback) makes the status of an
\* existing, non-terminal job fallback, and changes nothing of a job that is
\* absent or already terminal.
EnsureTerminalPromotes ==
    [][EnsureTerminalCalled =>
          LET j == store'.last.job
              current == store.jobs[j].db.status
          IN  IF current # "none" /\ ~isTerminal(current)
              THEN store'.jobs[j].db.status = store'.last.arg
              ELSE store'.jobs = store.jobs]_vars

\* C22, amended: the status of an existing, non-terminal job becomes fallback
\* when no storage error occurs in the call and fallback is not of lower
\* priority than the current status (no terminal fallback is); in every
\* other case, an absent or terminal job included, the call changes nothing.
EnsureTerminalPromotesUnlessIgnored ==
    [][EnsureTerminalCalled =>
          LET j == store'.last.job
              current == store.jobs[j].db.status
              fallback == store'.last.arg
          IN  IF /\ current # "none"
                 /\ ~isTerminal(current)
                 /\ ~store'.last.fault
                 /\ priority[fallback] >= priority[current]
              THEN store'.jobs = [store.jobs EXCEPT ![j].db.status = fallback]
              ELSE store'.jobs = store.jobs]_vars

\* A running job that a call with the default fallback has made done.
EnsureTerminalPromotesWitness ==
    /\ store.last.fn = "ensureTerminalJobStatus"
    /\ store.last.before = "running"
    /\ store.last.arg = "done"
    /\ ~store.last.fault
    /\ store.jobs[store.last.job].db.status = "done"

\* The jobs whose status is not terminal, and whether job j is one of those
\* with the latest startedAt among them.
NonTerminalJobs ==
    {j \in JobIds :
        store.jobs[j].db.status \notin {"none", "done", "failed", "needs_manual_review"}}

IsLatestNonTerminal(j) ==
    /\ j \in NonTerminalJobs
    /\ \A k \in NonTerminalJobs : store.jobs[k].startedAt <= store.jobs[j].startedAt

\* C28 as stated: readActiveJob returns a job if and only if some job has a
\* non-terminal status, and the job returned is the non-terminal job with the
\* latest startedAt.
ReadActiveJobLatest ==
    store.last.fn = "readActiveJob" =>
        /\ store.active # "none" <=> NonTerminalJobs # {}
        /\ store.active # "none" => IsLatestNonTerminal(store.active)

\* C28, amended: a read in which no storage error occurs returns a job if
\* and only if some job has a non-terminal status; a read in which a
\* storage error occurs returns nothing; a job returned is a non-terminal job
\* with the latest startedAt, never a done, failed or needs_manual_review one.
ReadActiveJobLatestUnlessFault ==
    store.last.fn = "readActiveJob" =>
        /\ ~store.last.fault => (store.active # "none" <=> NonTerminalJobs # {})
        /\ store.last.fault => store.active = "none"
        /\ store.active # "none" => IsLatestNonTerminal(store.active)

\* Two non-terminal jobs, and a read that returned the later one.
ReadActiveJobLatestWitness ==
    /\ store.last.fn = "readActiveJob"
    /\ ~store.last.fault
    /\ store.active = "j2"
    /\ NonTerminalJobs = JobIds
    /\ store.jobs["j1"].startedAt < store.jobs["j2"].startedAt

\* C23: once the plan is batched, with canParallelize two subtasks share a
\* batch if and only if they have the same non-empty parallelGroup (so a
\* subtask with an empty parallelGroup is alone in its batch whatever labels
\* the others carry), and without canParallelize every subtask is alone.
BatchesFollowGroups ==
    pc \notin {"start", "plan", "threw"} =>
        \A i \in Planned, k \in Planned :
            i # k =>
                (batchOf(i) = batchOf(k) <=>
                    /\ plan.can_parallelize
                    /\ plan.subtasks[i].parallel_group # ""
                    /\ plan.subtasks[i].parallel_group = plan.subtasks[k].parallel_group)

\* The calls the dispatcher made for task t, and the tasks whose engine run
\* has been started and has not ended.
CallsFor(t) ==
    {dispatcher.log[i].kind : i \in {n \in 1..Len(dispatcher.log) : dispatcher.log[n].task = t}}

TasksTaken == {dispatcher.log[i].task : i \in 1..Len(dispatcher.log)}

RunsInFlight ==
    {t \in TasksTaken : "run" \in CallsFor(t) /\ CallsFor(t) \cap {"returned", "threw"} = {}}

\* The call that comes right before a call of each kind.
CallBefore ==
    [nextTask |-> {"markDone", "markFailed"}, onStart |-> {"nextTask"},
     run |-> {"onStart"}, returned |-> {"run"}, threw |-> {"run"},
     onSuccess |-> {"returned"}, markDone |-> {"onSuccess"},
     onFailure |-> {"threw"}, markFailed |-> {"onFailure"}]

\* C24: at most one engine run is in flight; for each task onStart comes
\* before its run, and its run and outcome callbacks are over before the
\* next nextTask call and the next task's onStart; tasks are run in the order
\* nextTask returned them.
OneTaskAtATime ==
    LET log == dispatcher.log
        taken == SelectSeq(log, LAMBDA c : c.kind = "nextTask")
        run == SelectSeq(log, LAMBDA c : c.kind = "run")
    IN  /\ Cardinality(RunsInFlight) <= 1
        /\ log # <<>> => log[1].kind = "nextTask"
        /\ \A i \in 2..Len(log) :
              /\ log[i - 1].kind \in CallBefore[log[i].kind]
              /\ log[i].kind # "nextTask" => log[i].task = log[i - 1].task
        /\ (dispatcher.pc = "poll" /\ log # <<>>) =>
              log[Len(log)].kind \in {"markDone", "markFailed"}
        /\ Len(run) <= Len(taken)
        /\ \A i \in 1..Len(run) : run[i].task = taken[i].task

\* Three tasks taken from two sources, the third being run.
OneTaskAtATimeWitness ==
    /\ Cardinality(TasksTaken) = 3
    /\ RunsInFlight = {dispatcher.task}
    /\ dispatcher.src = 2
    /\ "threw" \in CallsFor(1)

DispatcherStopsWhenEmpty ==
    /\ dispatcher.stopWhenEmpty ~> dispatcher.pc = "exited"
    /\ [](dispatcher.pc = "exited" =>
            /\ dispatcher.stopWhenEmpty
            /\ dispatcher.idles = 1
            /\ ~dispatcher.processedAny
            /\ \A s \in Sources : dispatcher.queue[s] = <<>>
            /\ TasksTaken = 1..dispatcher.arrived
            /\ \A t \in TasksTaken : CallsFor(t) \cap {"markDone", "markFailed"} # {})
    /\ []((dispatcher.stopWhenEmpty /\ dispatcher.idles > 0) => dispatcher.pc = "exited")
    /\ [](~dispatcher.stopWhenEmpty => dispatcher.pc # "exited")

\* The loop has exited after a failed run and a later successful one.
DispatcherStopsWhenEmptyWitness ==
    /\ dispatcher.pc = "exited"
    /\ "markFailed" \in CallsFor(1)
    /\ "markDone" \in CallsFor(2)

\* C27: on each tick the payload sampled is sent to all open subscribers if
\* and only if it differs from the payload of the previous sample (the first
\* sample has none before it): an unchanged payload is never sent again and
\* every change of the sampled payload is sent.
BroadcastIffChanged ==
    dashboard.ticks > 0 =>
        /\ dashboard.tick.sentTo =
              IF dashboard.tick.sample # dashboard.tick.previous
              THEN dashboard.tick.open
              ELSE {}
        /\ dashboard.lastPayload = dashboard.tick.sample

\* A tick that sent a changed payload to two subscribers after an earlier
\* sample.
BroadcastIffChangedWitness ==
    /\ dashboard.ticks >= 2
    /\ dashboard.tick.previous = "job-a"
    /\ dashboard.tick.sample = "job-b"
    /\ dashboard.tick.sentTo = Clients

\* The last n characters of a string.
Last(s, n) == SubSeq(s, Len(s) - n + 1, Len(s))

\* C29: for any sequence of chunks and any captureLimit > 0, the captured
\* stdout and stderr never exceed captureLimit in length and equal the last
\* min(total length, captureLimit) characters of the full output.
CaptureKeepsTail ==
    (capture.limit > 0 /\ capture.state \in {"resolved", "rejected"}) =>
        \A k \in Streams :
            LET full == toString(capture.bytes[k])
                n == IF Len(full) <= capture.limit THEN Len(full) ELSE capture.limit
            IN  /\ Len(capture.text[k]) <= capture.limit
                /\ capture.text[k] = Last(full, n)

\* The results the schema of a stage accepts.
SchemaValid ==
    IF stage.fn = "codexPlanTask" THEN {"plan"} ELSE {"ok", "failed"}

\* The text contains a JSON object valid for the stage's schema.
ContainsValidJson(text) ==
    \E i \in 1..Len(text), k \in 1..Len(text) :
        /\ text[i] = "{"
        /\ text[k] = "}"
        /\ tryParseJson(SubSeq(text, i, k)) \in SchemaValid

\* The JSON objects of the text that end at its last "}" and, for the plan
\* stage, begin at its first "{".
FinalJson(text) ==
    {tryParseJson(SubSeq(text, i, k)) :
        i \in {n \in 1..Len(text) :
                 /\ text[n] = "{"
                 /\ stage.fn = "codexPlanTask" => \A b \in 1..(n - 1) : text[b] # "{"},
        k \in {n \in 1..Len(text) :
                 /\ text[n] = "}"
                 /\ \A a \in (n + 1)..Len(text) : text[a] # "}"}} \ {"null"}

JoinWaitsForBatch ==
    /\ \A n \in 1..Len(batches) :
          (pc # "start" /\ pc # "plan" /\ n < batchIdx) =>
              \A k \in inBatch(n) : st[k] \in {"fulfilled", "rejected"}
    /\ (pc \in {"threw", "ended"} /\ error = "subtask") =>
          \A k \in inBatch(batchIdx) : st[k] \in {"fulfilled", "rejected"}

\* C37: the order of the reported subtask results, which is the order in
\* which the branches are passed to and merged by the merge stage, does not
\* depend on the order in which the subtasks of a batch complete: it is the
\* order of the interleaving in which they complete in plan order.
ResultsInPlanOrder ==
    \A i \in 1..Len(subtaskResults), k \in 1..Len(subtaskResults) :
        i < k => subtaskResults[i] < subtaskResults[k]

\* C40: the notes of the final merge result state that conflicts were
\* resolved exactly when some branch merge took the conflict-resolution
\* path, and that the branches merged without conflicts only when none did.
NotesTellConflicts ==
    mergeResult # NoMergeResult =>
        LET words == {mergeResult.notes[i] : i \in 1..Len(mergeResult.notes)}
            tookPath == \E n \in 1..Len(mergeLog) : mergeLog[n] = "resolved"
        IN  /\ ("resolved" \in words) <=> tookPath
            /\ ("without" \in words) => ~tookPath

\* C35: no State Store operation updates or deletes an existing artifact:
\* across every call, each artifact a job had before the call is still
\* there after it, in its place, with the same type, subtask and createdAt.
ArtifactsWriteOnce ==
    [][\A j \in JobIds :
          LET old == store.jobs[j]
              new == store'.jobs[j]
          IN  /\ Len(old.db.artifacts) <= Len(new.db.artifacts)
              /\ Len(new.createdAt) = Len(new.db.artifacts)
              /\ \A i \in 1..Len(old.db.artifacts) :
                    /\ new.db.artifacts[i] = old.db.artifacts[i]
                    /\ new.createdAt[i] = old.createdAt[i]]_vars

ArtifactsWriteOnceWitness ==
    /\ store.calls = 3
    /\ store.last.job = "j1"
    /\ store.last.fn = "recordSubtaskResult"
    /\ ~store.last.fault
    /\ Len(store.jobs["j1"].db.artifacts) = 3
    /\ store.jobs["j1"].createdAt = <<1, 2, 2>>

\* C39: a subtask's persisted status only moves forward along
\* pending -> running -> completed | failed: no State Store write takes a
\* subtask back to an earlier status.
SubtaskStatusForward ==
    [][\A j \in JobIds, id \in SubtaskIds :
          LET rank == [s \in {"absent", "pending", "running", "completed", "failed"} |->
                          CASE s = "absent" -> 0
                            [] s = "pending" -> 1
                            [] s = "running" -> 2
                            [] OTHER -> 3]
          IN  rank[store.jobs[j].db.subtasks[id]] <= rank[store'.jobs[j].db.subtasks[id]]]_vars

\* The object the right-to-left walk finds in a text: the whole text when it
\* parses, else the candidate from the rightmost "{" to the last "}" that
\* parses, "threw" when there is none.
WalkFrom(text) ==
    LET t == trim(text)
        close == lastIndexOf(t, "}", Len(t))
        parsing == {i \in 1..close :
                      t[i] = "{" /\ tryParseJson(SubSeq(t, i, close)) # "null"}
    IN  IF t # <<>> /\ tryParseJson(t) # "null" THEN tryParseJson(t)
        ELSE IF parsing = {} THEN "threw"
        ELSE tryParseJson(SubSeq(t, CHOOSE i \in parsing : \A k \in parsing : k <= i, close))

\* C34: on every text a stage hands to its JSON extractor, the extractor
\* returns what the right-to-left walk over the "{" positions before the last
\* "}" finds, and fails only when no candidate parses.
ExtractorsWalkRightToLeft ==
    stage.outcome # "none" =>
        \A text \in {firstOutput(stage), combinedOutput(stage)} :
            (IF stage.fn = "codexPlanTask"
             THEN extractJsonObject(text)
             ELSE extractLastJsonObject(text)) = WalkFrom(text)

\* C38: the descriptive attributes of a job (task description, user task,
\* push-result flag, repo root, base branch) are not changed by later stage
\* writes: while they are the values the engine created the job with, every
\* write for the job leaves them so.
JobAttributesKept ==
    [][\A j \in JobIds :
          (store.jobs[j].db.status # "none" /\ store.jobs[j].attrs = jobAttrs(engineContext))
              => store'.jobs[j].attrs = store.jobs[j].attrs]_vars

\* C33: every branch name persisted in the State Store, whatever it was
\* derived from, is made of the characters [A-Za-z0-9._/-] only and neither
\* starts nor ends with "-" or ".".
PersistedBranchesClean ==
    \A j \in JobIds, id \in SubtaskIds :
        LET b == store.jobs[j].db.branches[id]
        IN  b # NoBranch =>
              /\ \A i \in 1..Len(b) :
                    b[i] \in LowerChars \cup UpperChars \cup DigitChars
                                \cup {".", "_", "/", "-"}
              /\ b[1] \notin {"-", "."}
              /\ b[Len(b)] \notin {"-", "."}

\* C31: the Telegram task source never returns the same update as a task
\* twice: after a poll that returned updates the offset is the last
\* update_id + 1, every later poll asks for updates at or above the offset
\* the poll before it left, and an enqueued update leaves the queue only when
\* nextTask returns it, which it does once.
TelegramNoDuplicateTasks ==
    /\ [](\A i \in 1..Len(telegram.returned), k \in 1..Len(telegram.returned) :
              telegram.returned[i] = telegram.returned[k] => i = k)
    /\ [](\A i \in 1..Len(telegram.queue) :
              /\ \A k \in 1..Len(telegram.queue) :
                    telegram.queue[i] = telegram.queue[k] => i = k
              /\ \A k \in 1..Len(telegram.returned) :
                    telegram.queue[i] # telegram.returned[k])
    /\ []((telegram.poll.got # <<>> /\ ~telegram.poll.fault) =>
              /\ telegram.poll.after = telegram.poll.got[Len(telegram.poll.got)] + 1
              /\ telegram.offset = telegram.poll.after)
    /\ [][/\ telegram'.offset >= telegram.offset
           /\ telegram'.poll # telegram.poll => telegram'.poll.asked = telegram.offset
           /\ \A i \in 1..Len(telegram.queue) :
                 \/ i = 1 /\ telegram'.returned = Append(telegram.returned, telegram.queue[1])
                 \/ i > 1 /\ i - 1 <= Len(telegram'.queue)
                          /\ telegram'.queue[i - 1] = telegram.queue[i]
                 \/ i <= Len(telegram'.queue) /\ telegram'.queue[i] = telegram.queue[i]
          ]_vars

TelegramNoDuplicateTasksWitness ==
    /\ telegram.returned = <<1, 3>>
    /\ telegram.server = <<"admin", "other", "admin">>
    /\ telegram.poll.asked = 4
    /\ telegram.poll.got = <<>>
    /\ ~telegram.poll.fault
    /\ telegram.polls = 3

\* Whether a path is the root or lies under it, directory by directory.
LocatedInside(root, p) ==
    LET rs == normalizeSegments(segments(root, <<>>, <<>>), <<>>)
        ps == normalizeSegments(segments(p, <<>>, <<>>), <<>>)
    IN  Len(rs) <= Len(ps) /\ SubSeq(ps, 1, Len(rs)) = rs

\* C32: when the run context has a repo root, the project root a stage
\* resolves is the repo root or a path inside it: a relative project root
\* is resolved against the repo root, and one that resolves to a place
\* outside the repo root yields the repo root.
ProjectRootInsideRepo ==
    (paths.by # "none" /\ paths.context) =>
        LET explicit == trim(paths.projectRoot)
            target == pathResolve(RepoRoot, explicit)
        IN  /\ LocatedInside(RepoRoot, paths.resolved)
            /\ paths.resolved =
                   IF explicit # <<>> /\ LocatedInside(RepoRoot, target)
                   THEN target ELSE RepoRoot

====
